---- MODULE Spec2Model ----
(***************************************************************************)
(* AI code review bot: the webhook gateway (webhook-service) and the       *)
(* review service (review-service).                                        *)
(*                                                                         *)
(* One webhook delivery is followed from its arrival at                    *)
(* POST /github/webhook through verifyGitHubSignature, the route handler,  *)
(* fetchPullRequestDiff, the forward to POST /review (validateReviewRequest*)
(* and generateCodeReview on the other side) and postReviewSummary.        *)
(*                                                                         *)
(* Data representation                                                     *)
(*   JSON / JavaScript values are tagged records; the tag is field t and   *)
(*   each payload field name carries one type only:                        *)
(*     [t |-> "undef"]                 undefined (absent property)         *)
(*     [t |-> "null"]                  null                                *)
(*     [t |-> "str", a |-> "opened"]   a string compared only as a whole   *)
(*     [t |-> "txt", cs |-> <<..>>]    a string whose characters matter    *)
(*                                     (Latin-1 character codes)           *)
(*     [t |-> "num", h |-> n]          the number n/2 (h counts halves, so *)
(*                                     that 1.5 is h = 3)                  *)
(*     [t |-> "num", inf |-> TRUE]     the number Infinity                 *)
(*     [t |-> "name", segs |-> <<..>>] a string as its '/'-separated parts *)
(*     [t |-> "arr", e |-> <<..>>]     an array                            *)
(*     [t |-> "buf", b |-> <<..>>]     a Buffer of bytes                   *)
(***************************************************************************)
EXTENDS Integers, Sequences, FiniteSets, TLC

VARIABLES
  secret,   \* config.githubWebhookSecret
  req,      \* the inbound webhook request: rawBody, sig, event, body
  tamper,   \* history: what was changed in transit ("none", "body", "sig")
  pc,       \* position of the webhook request in the gateway
  res,      \* the response the gateway sent for it (NoRes until sent)
  cmp,      \* history: the outcome of the timingSafeEqual call ("none": not run)
  calls,    \* the outbound calls this run issued, in order
  attempt,  \* attempts made of the transport-client request in flight
  diff,     \* the diff fetchPullRequestDiff returned (Undef before)
  forwarded,\* the body posted to the review service (Undef before)
  posted,   \* the arguments of the createReview call ([event |-> ""] before)
  params,   \* the summary and comments postReviewSummary was called with (Undef before)
  svcRecv,  \* how often the review service received this run's request
  svcDetails,\* history: the field errors of the review service's last answer
  errs,     \* history: the errors of the failed attempts of that request
  stage,    \* history: how far each stage of the run got
  llmCalls, \* how often the model backend was invoked
  rreq,     \* review service alone: the body of a POST /review request
  rpc,      \* review service alone: position of that request
  rres,     \* review service alone: the response sent
  llm,      \* review service alone: the backend's outcome for that request
  wire,     \* review service alone: the JSON text of the result (Undef before)
  again,    \* review service alone: the sanitization step run on that text
  conns,    \* server: the requests the gateway accepted, each with its position
  hits,     \* server: the rate limiter's store, per client address
  issued,   \* server: how many identifiers uuidv4 has generated
  head,     \* server: GitHub, the version of the pull request's diff
  reviews   \* server: GitHub, the reviews created on the pull request, in order

sigVars == <<secret, req, tamper, cmp>>
runVars == <<calls, attempt, diff, forwarded, posted, params, svcRecv, svcDetails,
             errs, stage>>
revVars == <<rreq, rpc, rres, llm, wire, again>>
srvVars == <<conns, hits, issued, head, reviews>>
vars == <<secret, req, tamper, pc, res, cmp, calls, attempt, diff, forwarded,
          posted, params, svcRecv, svcDetails, errs, stage, llmCalls, rreq, rpc, rres,
          llm, wire, again, conns, hits, issued, head, reviews>>

(***************************************************************************)
(* Bounds of the model                                                     *)
(***************************************************************************)
MaxByte == 1        \* body bytes range over 0..MaxByte
MaxBodyLen == 2     \* raw bodies have at most this many bytes
DigestLen == 2      \* hex digits of the modelled digest (64 in SHA-256)

(***************************************************************************)
(* Values                                                                  *)
(***************************************************************************)
Undef == [t |-> "undef"]
Str(x) == [t |-> "str", a |-> x]
Txt(chars) == [t |-> "txt", cs |-> chars]
Num(halves) == [t |-> "num", h |-> halves]
Buf(bytes) == [t |-> "buf", b |-> bytes]

Null == [t |-> "null"]
Bool(x) == [t |-> "bool", a |-> x]
Arr(elems) == [t |-> "arr", e |-> elems]

\* A string as the segments split('/') yields (repository.full_name);
\* the empty string is the one empty segment.
Name(segs) == [t |-> "name", segs |-> segs]

IsString(v) == v.t \in {"str", "txt", "name"}

\* JavaScript truthiness of a value.
Truthy(v) ==
  CASE v.t \in {"undef", "null"} -> FALSE
    [] v.t = "str" -> v.a # ""
    [] v.t = "txt" -> v.cs # <<>>
    [] v.t = "num" -> v.h # 0
    [] v.t = "name" -> v.segs # <<"">>
    [] OTHER -> TRUE

SeqsUpTo(S, n) == UNION {[1..k -> S] : k \in 0..n}

Bytes == 0..MaxByte
RawBodies == {Buf(b) : b \in SeqsUpTo(Bytes, MaxBodyLen)}

(***************************************************************************)
(* crypto and Buffer primitives used by verifyGitHubSignature              *)
(***************************************************************************)
RECURSIVE Pow(_, _)
Pow(b, n) == IF n = 0 THEN 1 ELSE b * Pow(b, n - 1)

\* One lower-case hex digit as a character code ('0' = 48, 'a' = 97).
HexChar(d) == IF d < 10 THEN 48 + d ELSE 87 + d

\* digest('hex'): the digest value as len lower-case hex digits.
RECURSIVE ToHex(_, _)
ToHex(n, len) ==
  IF len = 0 THEN <<>> ELSE Append(ToHex(n \div 16, len - 1), HexChar(n % 16))

\* The byte string as a number, positionally, so that different byte
\* strings of the model give different numbers.
RECURSIVE Encode(_)
Encode(bytes) ==
  IF bytes = <<>> THEN 0
  ELSE (Head(bytes) + 1) + (MaxByte + 2) * Encode(Tail(bytes))

KeyVal(key) == IF key = "s3cret" THEN 113 ELSE 29

\* A digest that ignores the bytes.
HmacSha256_BadKeyOnly(key, bytes) == KeyVal(key) % Pow(16, DigestLen)

\* createHmac('sha256', key).update(bytes).digest(): a keyed digest of
\* DigestLen hex digits.  It stands for HMAC-SHA256 as an ideal MAC: a
\* keyed function that does not collide on the bodies of the model.
HmacSha256(key, bytes) ==
  (Encode(bytes) * 37 + KeyVal(key)) % Pow(16, DigestLen)

\* "sha256=" as character codes.
SigPrefix == <<115, 104, 97, 50, 53, 54, 61>>

\* `sha256=${expectedSignature}`
ExpectedSig(key, bytes) == SigPrefix \o ToHex(HmacSha256(key, bytes), DigestLen)

\* Buffer.from(s, 'utf8'): code points below 128 are one byte, the other
\* Latin-1 code points two.
RECURSIVE Utf8(_)
Utf8(chars) ==
  IF chars = <<>> THEN <<>>
  ELSE LET c == Head(chars)
       IN  (IF c < 128 THEN <<c>> ELSE <<192 + (c \div 64), 128 + (c % 64)>>)
             \o Utf8(Tail(chars))

\* crypto.timingSafeEqual: throws a RangeError on inputs of unequal length.
TimingSafeEqual(x, y) ==
  IF Len(x) # Len(y) THEN "throws" ELSE IF x = y THEN "true" ELSE "false"

(***************************************************************************)
(* Responses (types.ts: createErrorResponse, createSuccessResponse)        *)
(***************************************************************************)
NoRes == [status |-> 0, success |-> FALSE, code |-> "", message |-> <<>>,
          data |-> Undef, requestId |-> ""]

\* A message is a sequence of tokens: literal text or an interpolated value.
Lit(text) == [k |-> "lit", a |-> text]
Val(v) == [k |-> "val", v |-> v]

createErrorResponse(status, code, message, requestId) ==
  [status |-> status, success |-> FALSE, code |-> code, message |-> message,
   data |-> Undef, requestId |-> requestId]

createSuccessResponse(data, requestId) ==
  [status |-> 200, success |-> TRUE, code |-> "", message |-> <<>>,
   data |-> data, requestId |-> requestId]

(***************************************************************************)
(* middleware/verifyGitHubSignature.ts                                     *)
(***************************************************************************)
NoSecret == ""

Rejected(message, ran, requestId) ==
  [next |-> FALSE, compared |-> ran,
   res |-> createErrorResponse(401, "AUTHENTICATION_ERROR", <<Lit(message)>>,
                               requestId)]

\* A variant that compares the common prefix of the two buffers, without
\* the length check.
verifyGitHubSignature_BadNoLengthCheck(key, r) ==
  IF key = NoSecret THEN [next |-> TRUE, compared |-> "none", res |-> NoRes]
  ELSE IF r.rawBody.t = "undef"
    THEN Rejected("Missing request body for signature verification", "none", r.id)
  ELSE IF r.sig.t # "txt" \/ r.sig.cs = <<>>
    THEN Rejected("Missing or invalid signature header", "none", r.id)
  ELSE
    LET expectedBuffer == Utf8(ExpectedSig(key, r.rawBody.b))
        receivedBuffer == Utf8(r.sig.cs)
        n == IF Len(expectedBuffer) < Len(receivedBuffer)
             THEN Len(expectedBuffer) ELSE Len(receivedBuffer)
    IN  IF SubSeq(expectedBuffer, 1, n) = SubSeq(receivedBuffer, 1, n)
        THEN [next |-> TRUE, compared |-> "true", res |-> NoRes]
        ELSE Rejected("Invalid signature", "false", r.id)

\* A variant that asks for the raw body before it looks at the secret.
verifyGitHubSignature_BadBodyBeforeSecret(key, r) ==
  IF r.rawBody.t = "undef"
    THEN Rejected("Missing request body for signature verification", "none", r.id)
  ELSE IF key = NoSecret THEN [next |-> TRUE, compared |-> "none", res |-> NoRes]
  ELSE IF r.sig.t # "txt" \/ r.sig.cs = <<>>
    THEN Rejected("Missing or invalid signature header", "none", r.id)
  ELSE
    LET expectedBuffer == Utf8(ExpectedSig(key, r.rawBody.b))
        receivedBuffer == Utf8(r.sig.cs)
    IN  IF Len(expectedBuffer) # Len(receivedBuffer)
        THEN Rejected("Invalid signature", "none", r.id)
        ELSE LET isValid == TimingSafeEqual(expectedBuffer, receivedBuffer)
             IN  IF isValid = "true"
                 THEN [next |-> TRUE, compared |-> isValid, res |-> NoRes]
                 ELSE Rejected("Invalid signature", isValid, r.id)

\* A variant whose length check counts the characters of the two strings
\* instead of the bytes of the two buffers; the RangeError of the comparison
\* reaches the error middleware.
verifyGitHubSignature_BadCharLength(key, r) ==
  IF key = NoSecret THEN [next |-> TRUE, compared |-> "none", res |-> NoRes]
  ELSE IF r.rawBody.t = "undef"
    THEN Rejected("Missing request body for signature verification", "none", r.id)
  ELSE IF r.sig.t # "txt" \/ r.sig.cs = <<>>
    THEN Rejected("Missing or invalid signature header", "none", r.id)
  ELSE
    LET expected == ExpectedSig(key, r.rawBody.b)
        expectedBuffer == Utf8(expected)
        receivedBuffer == Utf8(r.sig.cs)
    IN  IF Len(expected) # Len(r.sig.cs)
        THEN Rejected("Invalid signature", "none", r.id)
        ELSE LET isValid == TimingSafeEqual(expectedBuffer, receivedBuffer)
             IN  IF isValid = "true"
                   THEN [next |-> TRUE, compared |-> isValid, res |-> NoRes]
                 ELSE IF isValid = "throws"
                   THEN [next |-> FALSE, compared |-> isValid,
                         res |-> createErrorResponse(500, "INTERNAL_ERROR",
                                   <<Lit("An internal error occurred")>>, r.id)]
                 ELSE Rejected("Invalid signature", isValid, r.id)

\* The middleware as a function of the configuration and the request: whether
\* it called next(), the response it sent otherwise, and the outcome of the
\* timingSafeEqual call ("none" when the call was not reached).
verifyGitHubSignature(key, r) ==
  IF key = NoSecret THEN [next |-> TRUE, compared |-> "none", res |-> NoRes]
  ELSE IF r.rawBody.t = "undef"
    THEN Rejected("Missing request body for signature verification", "none", r.id)
  ELSE IF r.sig.t # "txt" \/ r.sig.cs = <<>>
    THEN Rejected("Missing or invalid signature header", "none", r.id)
  ELSE
    LET expectedBuffer == Utf8(ExpectedSig(key, r.rawBody.b))
        receivedBuffer == Utf8(r.sig.cs)
    IN  IF Len(expectedBuffer) # Len(receivedBuffer)
        THEN Rejected("Invalid signature", "none", r.id)
        ELSE LET isValid == TimingSafeEqual(expectedBuffer, receivedBuffer)
             IN  IF isValid = "true"
                 THEN [next |-> TRUE, compared |-> isValid, res |-> NoRes]
                 ELSE Rejected("Invalid signature", isValid, r.id)

(***************************************************************************)
(* review-service: middleware/validation.ts (zod ReviewRequestSchema)      *)
(***************************************************************************)
MaxDiffSize == 2    \* config.maxDiffSize of the model (default 1000000)

\* One zod issue as the handler maps it: {field: path.join('.'), message}.
Issue(field, message) == [field |-> field, message |-> message]

TypeName(v) == IF IsString(v) THEN "string"
               ELSE IF v.t = "num" THEN "number"
               ELSE IF v.t = "arr" THEN "array"
               ELSE IF v.t = "undef" THEN "undefined"
               ELSE IF v.t = "null" THEN "null" ELSE "object"

\* zod's invalid_type issue: "Required" for undefined, "Expected ..." else.
InvalidType(field, expected, v) ==
  IF v.t = "undef" THEN Issue(field, <<Lit("Required")>>)
  ELSE Issue(field, <<Lit("Expected "), Lit(expected), Lit(", received "),
                      Lit(TypeName(v))>>)

\* repo: z.string().min(1, 'Repository name is required')
RepoIssues(v) ==
  IF ~IsString(v) THEN <<InvalidType("repo", "string", v)>>
  ELSE IF ~Truthy(v) THEN <<Issue("repo", <<Lit("Repository name is required")>>)>>
  ELSE <<>>

\* prNumber: z.number().int().positive('PR number must be a positive integer')
\* Every failing check of a number adds its own issue.
PrNumberIssues(v) ==
  IF v.t # "num" THEN <<InvalidType("prNumber", "number", v)>>
  ELSE (IF v.h % 2 # 0
        THEN <<Issue("prNumber", <<Lit("Expected integer, received float")>>)>>
        ELSE <<>>)
       \o
       (IF v.h <= 0
        THEN <<Issue("prNumber", <<Lit("PR number must be a positive integer")>>)>>
        ELSE <<>>)

\* A variant that rejects a diff of exactly the maximum size.
DiffIssues_BadOffByOne(v, maxDiffSize) ==
  IF v.t # "txt" THEN <<InvalidType("diff", "string", v)>>
  ELSE (IF Len(v.cs) < 1
        THEN <<Issue("diff", <<Lit("Diff is required")>>)>> ELSE <<>>)
       \o
       (IF Len(v.cs) >= maxDiffSize
        THEN <<Issue("diff", <<Lit("Diff exceeds maximum size of "),
                               Val(Num(2 * maxDiffSize)), Lit(" characters")>>)>>
        ELSE <<>>)

\* diff: z.string().min(1, 'Diff is required').max(config.maxDiffSize, ...)
DiffIssues(v, maxDiffSize) ==
  IF v.t # "txt" THEN <<InvalidType("diff", "string", v)>>
  ELSE (IF Len(v.cs) < 1
        THEN <<Issue("diff", <<Lit("Diff is required")>>)>> ELSE <<>>)
       \o
       (IF Len(v.cs) > maxDiffSize
        THEN <<Issue("diff", <<Lit("Diff exceeds maximum size of "),
                               Val(Num(2 * maxDiffSize)), Lit(" characters")>>)>>
        ELSE <<>>)

\* language: z.string().optional()
LanguageIssues(v) ==
  IF v.t = "undef" \/ IsString(v) THEN <<>>
  ELSE <<InvalidType("language", "string", v)>>

\* ReviewRequestSchema.safeParse(body).error.errors, mapped to {field, message}.
SchemaIssues(body, maxDiffSize) ==
  IF body.t # "obj" THEN <<InvalidType("", "object", body)>>
  ELSE RepoIssues(body.repo) \o PrNumberIssues(body.prNumber)
         \o DiffIssues(body.diff, maxDiffSize) \o LanguageIssues(body.language)

\* A response of the review service.
ReviewRes(status, success, code, errors, result, requestId) ==
  [status |-> status, success |-> success, code |-> code, errors |-> errors,
   result |-> result, requestId |-> requestId]

NoResult == [summary |-> Undef, comments |-> Undef]
NoReviewRes == ReviewRes(0, FALSE, "", <<>>, NoResult, "")

\* A variant that lets every body through.
validateReviewRequest_BadAcceptsAll(body, maxDiffSize, requestId) ==
  [next |-> TRUE, res |-> NoReviewRes]

\* validateReviewRequest: next() on a body the schema accepts, else the 400.
validateReviewRequest(body, maxDiffSize, requestId) ==
  LET errors == SchemaIssues(body, maxDiffSize)
  IN  IF errors # <<>>
      THEN [next |-> FALSE,
            res |-> ReviewRes(400, FALSE, "VALIDATION_ERROR", errors, NoResult,
                          requestId)]
      ELSE [next |-> TRUE, res |-> NoReviewRes]

(***************************************************************************)
(* review-service: llmClient generateCodeReview and routes/review.ts       *)
(***************************************************************************)
MaxComments == 2    \* the model's reply lists at most this many comments

\* String.prototype.trim: the white space of Latin-1.
IsSpace(c) == c \in {9, 10, 11, 12, 13, 32, 160}

RECURSIVE TrimStart(_)
TrimStart(cs) ==
  IF cs # <<>> /\ IsSpace(Head(cs)) THEN TrimStart(Tail(cs)) ELSE cs

RECURSIVE TrimEnd(_)
TrimEnd(cs) ==
  IF cs # <<>> /\ IsSpace(cs[Len(cs)])
  THEN TrimEnd(SubSeq(cs, 1, Len(cs) - 1)) ELSE cs

Trim(cs) == TrimEnd(TrimStart(cs))

\* 'Code review completed'
FallbackSummary ==
  Txt(<<67, 111, 100, 101, 32, 114, 101, 118, 105, 101, 119, 32, 99, 111,
        109, 112, 108, 101, 116, 101, 100>>)

\* A variant that trims every string summary, blank ones too.
SanitizeSummary_BadNoFallback(v) ==
  IF v.t = "txt" THEN Txt(Trim(v.cs)) ELSE FallbackSummary

\* The reply's summary, trimmed, or the fallback.
SanitizeSummary(v) ==
  IF v.t = "txt" /\ Trim(v.cs) # <<>> THEN Txt(Trim(v.cs)) ELSE FallbackSummary

Severities == {"info", "warning", "error"}

\* A variant that accepts every string severity.
IsReviewComment_BadNoSeverityCheck(c) ==
  /\ c.t = "obj"
  /\ c.file.t = "str"
  /\ c.line.t = "num"
  /\ c.severity.t = "str"
  /\ c.message.t = "str"

\* The type guard of the comments filter.
IsReviewComment(c) ==
  /\ c.t = "obj"
  /\ c.file.t = "str"
  /\ c.line.t = "num"
  /\ c.severity.t = "str"
  /\ c.severity.a \in Severities
  /\ c.message.t = "str"

\* Array.prototype.filter is SelectSeq: the kept entries in their order.
SanitizeComments(v) ==
  IF v.t = "arr" THEN SelectSeq(v.e, IsReviewComment) ELSE <<>>

\* A thrown Error: its message.
Thrown(message) == [ok |-> FALSE, message |-> message, result |-> NoResult]
Returned(result) == [ok |-> TRUE, message |-> <<>>, result |-> result]

\* generateCodeReview on the backend's outcome: an API error, or a
\* completion whose content is missing (Undef), empty, text that is not
\* JSON ([t |-> "garbage"]) or text denoting a JSON value
\* ([t |-> "json", v |-> value]).
generateCodeReview(outcome) ==
  IF outcome.k = "apiError"
    THEN Thrown(<<Lit("OpenAI API error: "), Lit("upstream")>>)
  ELSE IF outcome.c.t \in {"undef", "empty"}
    THEN Thrown(<<Lit("No response content from OpenAI")>>)
  ELSE IF outcome.c.t = "garbage"
    THEN Thrown(<<Lit("Invalid JSON response from OpenAI")>>)
  ELSE
    LET parsedResponse == outcome.c.v
    IN  IF parsedResponse.t \notin {"obj", "arr"}
        THEN Thrown(<<Lit("OpenAI response is not a valid object")>>)
        ELSE
          LET response == IF parsedResponse.t = "obj" THEN parsedResponse
                          ELSE [summary |-> Undef, comments |-> Undef]
          IN  Returned([summary |-> SanitizeSummary(response.summary),
                        comments |-> SanitizeComments(response.comments)])

\* A variant that answers 200 whatever generateCodeReview did.
ReviewHandler_BadAlwaysOk(outcome, requestId) ==
  ReviewRes(200, TRUE, "", <<>>, generateCodeReview(outcome).result, requestId)

\* router.post('/') after validation: 200 with the review, or the 500.
ReviewHandler(outcome, requestId) ==
  LET r == generateCodeReview(outcome)
  IN  IF r.ok THEN ReviewRes(200, TRUE, "", <<>>, r.result, requestId)
      ELSE ReviewRes(500, FALSE, "EXTERNAL_SERVICE_ERROR", <<>>, NoResult,
                     requestId)

(***************************************************************************)
(* webhook-service: utils/axios.ts (httpClient with axios-retry)           *)
(***************************************************************************)
Retries == 3

\* An axios error: the response status (0 when there was no response) and
\* error.code.
AxiosError(status, code) == [status |-> status, code |-> code]

\* error.message of an axios error.
AxiosMessage(e, timeoutText) ==
  IF e.code = "ECONNABORTED" THEN <<Lit(timeoutText)>>
  ELSE IF e.status # 0
    THEN <<Lit("Request failed with status code "), Val(Num(2 * e.status))>>
  ELSE <<Lit(e.code)>>

\* axios-retry's isNetworkOrIdempotentRequestError: a network error (no
\* response, a code other than ECONNABORTED that is-retry-allowed accepts),
\* or an idempotent method that got no response or a 5xx.
isNetworkOrIdempotentRequestError(method, e) ==
  \/ /\ e.status = 0
     /\ e.code \notin {"", "ECONNABORTED", "ERR_CANCELED", "ENOTFOUND"}
  \/ /\ method \in {"get", "head", "options", "put", "delete"}
     /\ e.code # "ECONNABORTED"
     /\ (e.status = 0 \/ e.status \in 500..599)

\* A variant that retries 4xx responses too.
retryCondition_BadRetriesClientErrors(method, e) ==
  isNetworkOrIdempotentRequestError(method, e) \/ e.status >= 400

\* retryCondition of axiosRetry(httpClient, ...).
retryCondition(method, e) ==
  isNetworkOrIdempotentRequestError(method, e) \/ e.status >= 500

\* A variant that allows one retry more.
ShouldRetry_BadUnbounded(method, e, attemptsMade) ==
  attemptsMade - 1 < Retries + 1 /\ retryCondition(method, e)

\* axios-retry: retry while fewer than `retries` retries were made.
ShouldRetry(method, e, attemptsMade) ==
  attemptsMade - 1 < Retries /\ retryCondition(method, e)

(***************************************************************************)
(* webhook-service: the POST /github/webhook route handler                 *)
(***************************************************************************)
\* const [owner, repo] = fullName.split('/'); "" stands for undefined too.
OwnerOf(fullName) == fullName.segs[1]
RepoOf(fullName) == IF Len(fullName.segs) >= 2 THEN fullName.segs[2] ELSE ""

ActionableActions == {"opened", "reopened", "synchronize"}

\* A variant that does not look at the event type.
Actionable_BadAnyEvent(r) ==
  /\ Truthy(r.body.action)
  /\ r.body.action.a \in ActionableActions

\* eventType === 'pull_request' && body.action && [...].includes(body.action)
Actionable(r) ==
  /\ r.event = Str("pull_request")
  /\ Truthy(r.body.action)
  /\ r.body.action.a \in ActionableActions

\* The texts of the model that contain 'timeout' or 'TIMEOUT': the messages
\* of axios on an exceeded budget, and a repository name.
TimeoutTexts ==
  {"timeout of 10000ms exceeded", "timeout of 120000ms exceeded", "timeout-tests"}

TokenText(tok) ==
  IF tok.k = "lit" THEN tok.a
  ELSE IF tok.v.t = "str" THEN tok.v.a ELSE ""

\* error.message.includes('timeout') || error.message.includes('TIMEOUT')
isTimeout(message) ==
  \E i \in 1..Len(message) : TokenText(message[i]) \in TimeoutTexts

\* The outer catch of the handler on a thrown Error.
CatchResponse(message, requestId) ==
  createErrorResponse(500,
    IF isTimeout(message) THEN "TIMEOUT_ERROR" ELSE "INTERNAL_ERROR",
    <<Lit("Failed to process webhook: ")>> \o message, requestId)

\* The app's error middleware (an exception outside the handler's try).
ErrorMiddlewareResponse(requestId) ==
  createErrorResponse(500, "INTERNAL_ERROR", <<Lit("An internal error occurred")>>,
                      requestId)

\* githubClient.ts: the Error fetchPullRequestDiff throws from its catch.
FetchDiffError(r, cause) ==
  <<Lit("Failed to fetch diff for PR #"), Val(r.body.number), Lit(" in "),
    Val(Str(OwnerOf(r.body.full_name))), Lit("/"),
    Val(Str(RepoOf(r.body.full_name))), Lit(": ")>> \o cause

\* A variant that does not trim.
IsBlankDiff_BadOnlyEmpty(d) == d.cs = <<>>

\* !diff || diff.trim().length === 0
IsBlankDiff(d) == d.cs = <<>> \/ Trim(d.cs) = <<>>

NoChangesData ==
  [forwardedToReviewService |-> "false", postedReviewToGitHub |-> "false",
   reason |-> "PR has no changes to review"]

ProcessedData ==
  [forwardedToReviewService |-> "true", postedReviewToGitHub |-> "true"]

IgnoredData == [ignored |-> "true"]

\* A variant that forwards the diff without its surrounding white space.
ReviewRequestBody_BadTrimsDiff(r, d) ==
  [t |-> "obj", repo |-> r.body.full_name, prNumber |-> r.body.number,
   diff |-> Txt(Trim(d.cs)), language |-> Str("typescript")]

\* reviewRequestBody of the handler.
ReviewRequestBody(r, d) ==
  [t |-> "obj", repo |-> r.body.full_name, prNumber |-> r.body.number,
   diff |-> d, language |-> Str("typescript")]

(***************************************************************************)
(* webhook-service: githubComments.ts postReviewSummary                    *)
(***************************************************************************)
NoIssuesPlaceholder == "_No specific issues were detected. Nice work!_"

\* One bullet of the findings list: severity in bold, file:line as code,
\* then the message (the markdown emphasis marks are left out of the
\* literals).  A property read of an entry that is no object yields undefined.
Field(c, name) ==
  IF c.t # "obj" THEN Undef
  ELSE CASE name = "severity" -> c.severity
         [] name = "file" -> c.file
         [] name = "line" -> c.line
         [] name = "message" -> c.message

\* A variant that leaves the line number out of the bullet.
FindingLine_BadNoLine(c) ==
  <<Lit("- ("), Val(Field(c, "severity")), Lit(") "),
    Val(Field(c, "file")), Lit(" - "), Val(Field(c, "message"))>>

FindingLine(c) ==
  <<Lit("- ("), Val(Field(c, "severity")), Lit(") "),
    Val(Field(c, "file")), Lit(":"), Val(Field(c, "line")), Lit(" - "),
    Val(Field(c, "message"))>>

\* The markdown body, or a TypeError when an entry is null or undefined.
ReviewMarkdown(summary, comments) ==
  IF \E i \in 1..Len(comments) : comments[i].t \in {"null", "undef"}
  THEN [ok |-> FALSE, summary |-> summary, findings |-> <<>>, body |-> <<>>]
  ELSE LET findings == IF Len(comments) = 0
                       THEN <<<<Lit(NoIssuesPlaceholder)>>>>
                       ELSE [i \in 1..Len(comments) |-> FindingLine(comments[i])]
       IN  [ok |-> TRUE, summary |-> summary, findings |-> findings,
            body |-> <<<<Lit("### AI Code Review Assistant")>>, <<>>,
                       <<Val(summary)>>, <<>>, <<Lit("#### Findings")>>>>
                     \o findings]

NotPosted == [event |-> "", summary |-> Undef, findings |-> <<>>, body |-> <<>>]

\* A variant that approves the pull request.
CreateReviewArgs_BadApproves(md) ==
  [event |-> "APPROVE", summary |-> md.summary, findings |-> md.findings,
   body |-> md.body]

\* The arguments of octokit.rest.pulls.createReview.
CreateReviewArgs(md) ==
  [event |-> "COMMENT", summary |-> md.summary, findings |-> md.findings,
   body |-> md.body]

\* The Error postReviewSummary throws when createReview failed.
PostSummaryError(r, cause) ==
  <<Lit("Failed to post review summary to PR #"), Val(r.body.number),
    Lit(" in "), Val(Str(OwnerOf(r.body.full_name))), Lit("/"),
    Val(Str(RepoOf(r.body.full_name))), Lit(": ")>> \o cause

\* The handler's inner catch around postReviewSummary.
PostCatchResponse(message, requestId) ==
  createErrorResponse(500, "EXTERNAL_SERVICE_ERROR",
                      <<Lit("Failed to post review to GitHub: ")>> \o message,
                      requestId)

(***************************************************************************)
(* Inputs of the model                                                     *)
(***************************************************************************)
Secrets == {NoSecret, "s3cret"}

\* The key a genuine sender signs with.
SenderKey(key) == IF key = NoSecret THEN "s3cret" ELSE key

BytesOf(rawBody) == IF rawBody.t = "buf" THEN rawBody.b ELSE <<>>

\* The signature header: absent, repeated (an array), the genuine value, the
\* genuine value with its last digit changed, and with its last digit cut.
SigSamples(key, rawBody) ==
  LET good == ExpectedSig(SenderKey(key), BytesOf(rawBody))
      n == Len(good)
  IN  {Undef, Arr(<<>>), Txt(good),
       Txt([good EXCEPT ![n] = IF good[n] = 48 THEN 49 ELSE 48]),
       Txt(SubSeq(good, 1, n - 1))}

EventSamples == {Str("pull_request"), Str("push"), Undef}

ActionSamples ==
  {Undef, Str("opened"), Str("reopened"), Str("synchronize"), Str("closed")}

NameSamples ==
  {Undef, Name(<<"">>), Name(<<"acme">>), Name(<<"", "widgets">>),
   Name(<<"acme", "">>), Name(<<"acme", "widgets">>),
   Name(<<"acme", "widgets", "x">>), Name(<<"acme", "timeout-tests">>)}

\* pull_request.number: absent, 0, 42 and 1.5.
NumberSamples == {Undef, Num(0), Num(84), Num(3)}

Payloads ==
  [t : {"obj"}, action : ActionSamples, full_name : NameSamples,
   number : NumberSamples]

\* express.json: the raw body is captured exactly when a body was parsed.
RawBodySamples == {Undef, Buf(<<1, 0>>)}

\* req.id of the request as requestIdMiddleware set it, and the identifier
\* the review service gave the request forwarded to it.
GatewayRequestId == "gw-1"
SvcRequestId == "rev-1"

WebhookRequests(key) ==
  {[rawBody |-> rb, sig |-> sg, event |-> ev, body |-> b, id |-> GatewayRequestId] :
     rb \in RawBodySamples, sg \in UNION {SigSamples(key, x) : x \in RawBodySamples},
     ev \in EventSamples, b \in Payloads \cup {Undef}}

WellFormedRequest(key, r) ==
  /\ r.sig \in SigSamples(key, r.rawBody)
  /\ (r.body = Undef) <=> (r.rawBody = Undef)

Plus(n) == [i \in 1..n |-> 43]

\* Diffs: empty, white space only, of exactly the size limit (with a leading
\* space) and one character beyond it.
DiffSamples ==
  {Txt(<<>>), Txt(<<10, 32>>), Txt(<<32>> \o Plus(MaxDiffSize - 1)),
   Txt(Plus(MaxDiffSize + 1))}

\* Replies of octokit.rest.pulls.get.
PullsGetReplies ==
  {[ok |-> TRUE, diffUrl |-> TRUE, msg |-> ""],
   [ok |-> TRUE, diffUrl |-> FALSE, msg |-> ""],
   [ok |-> FALSE, diffUrl |-> FALSE, msg |-> "Not Found"]}

\* Outcomes of one attempt of an httpClient request that failed.
TransportErrors ==
  {AxiosError(404, "ERR_BAD_REQUEST"), AxiosError(500, "ERR_BAD_RESPONSE"),
   AxiosError(0, "ECONNRESET"),
   AxiosError(0, "ENOTFOUND"), AxiosError(0, "ECONNABORTED")}

\* The backend's outcomes.
ApiError == [k |-> "apiError", c |-> Undef]
Completion(content) == [k |-> "completion", c |-> content]
Json(v) == [t |-> "json", v |-> v]
Reply(summary, comments) ==
  [t |-> "obj", summary |-> summary, comments |-> comments]
Comment(file, line, severity, message) ==
  [t |-> "obj", file |-> file, line |-> line, severity |-> severity,
   message |-> message]

\* Entries of a reply's comments array: two well-formed ones, one with a
\* fractional line, and malformed ones.
GoodWarning == Comment(Str("a.ts"), Num(6), Str("warning"), Str("unused var"))
GoodInfo == Comment(Str("b.ts"), Num(2), Str("info"), Str("nit"))
CommentEntries ==
  {GoodWarning, GoodInfo,
   Comment(Str("a.ts"), Num(3), Str("error"), Str("half line")),
   Comment(Str("a.ts"), Num(6), Str("critical"), Str("bad severity")),
   Comment(Undef, Num(6), Str("info"), Str("no file")),
   Comment(Str("a.ts"), Str("6"), Str("info"), Str("line is text")),
   Comment(Str("a.ts"), Num(6), Str("info"), Num(2)),
   Null}

\* "LGTM" with white space around it, and other summaries.
SummarySamples ==
  {Undef, Num(2), Txt(<<>>), Txt(<<32, 10>>), Txt(<<76, 71, 84, 77>>),
   Txt(<<32, 76, 71, 84, 77, 10>>)}

CommentsSamples ==
  {Undef, Str("none")} \cup {Arr(e) : e \in SeqsUpTo(CommentEntries, MaxComments)}

LlmOutcomes ==
  {ApiError, Completion(Undef), Completion([t |-> "empty"]),
   Completion([t |-> "garbage"]), Completion(Json(Null)),
   Completion(Json(Num(2))), Completion(Json(Str("LGTM"))),
   Completion(Json(Bool("true"))), Completion(Json(Arr(<<>>))),
   Completion(Json(Arr(<<GoodInfo>>)))}
  \cup {Completion(Json(Reply(sm, cm))) : sm \in SummarySamples,
                                          cm \in CommentsSamples}

\* The outcomes the pipeline is run against.
LlmSamples ==
  {ApiError, Completion([t |-> "garbage"]), Completion(Json(Null)),
   Completion(Json(Reply(Undef, Undef))),
   Completion(Json(Reply(Txt(<<32, 76, 71, 84, 77, 10>>),
                         Arr(<<GoodWarning, Null, GoodInfo>>))))}

\* 2xx bodies of a server at reviewServiceUrl that is not this review
\* service: null, {}, a bare result, an empty summary, comments that are no
\* array, and a comments array holding null.
Body(data, summary, comments) ==
  [t |-> "obj", data |-> data, summary |-> summary, comments |-> comments]
ForeignBodies ==
  {Null, Body(Undef, Undef, Undef),
   Body(Undef, Txt(<<76, 71, 84, 77>>), Arr(<<>>)),
   Body(Reply(Txt(<<>>), Arr(<<>>)), Undef, Undef),
   Body(Reply(Txt(<<76, 71, 84, 77>>), Undef), Undef, Undef),
   Body(Reply(Txt(<<76, 71, 84, 77>>), Arr(<<Null>>)), Undef, Undef)}

\* Bodies posted to the review service directly.
ReviewBodies ==
  {Undef, Arr(<<>>)} \cup
  [t : {"obj"},
   repo : {Undef, Num(2), Str(""), Name(<<"acme", "widgets">>)},
   prNumber : {Undef, Str("42"), Num(84), Num(0), Num(-2), Num(3), Num(-3)},
   diff : {Undef, Num(2)} \cup {Txt(d) : d \in SeqsUpTo({32, 43}, MaxDiffSize + 1)},
   language : {Undef, Null, Str("typescript")}]

(***************************************************************************)
(* webhook-service: createServer, the server with several requests         *)
(***************************************************************************)
RateLimitMax == 1   \* config.rateLimitMax of the model (default 100)

\* The requests the server receives, numbered in their order of arrival,
\* and the addresses they come from.
Requests == {1, 2}
Clients == {"10.0.0.1", "10.0.0.2"}

\* uuidv4(): the identifier generated after n others, never one of them.
IdNames == <<"id-1", "id-2", "id-3", "id-4">>
uuidv4(n) == IdNames[n + 1]

\* A request body express.json could not parse.
SyntaxError == [t |-> "syntaxError"]

\* A request that has not arrived: no request, no identifier, no response.
NoRequest ==
  [path |-> "", rawBody |-> Undef, sig |-> Undef, event |-> Undef, body |-> Undef]

NoConn ==
  [at |-> "none", rq |-> NoRequest, client |-> "", id |-> "", hdr |-> "",
   res |-> NoRes, window |-> 0, counted |-> FALSE, seen |-> 0, calls |-> <<>>,
   replies |-> <<>>, svc |-> NoReviewRes, svcHdr |-> ""]

InitServerIdle ==
  /\ conns = [i \in Requests |-> NoConn]
  /\ hits = [cl \in Clients |-> [n |-> 0, w |-> 0]]
  /\ issued = 0
  /\ head = 0
  /\ reviews = <<>>

(***************************************************************************)
(* The gateway: one webhook delivery                                       *)
(***************************************************************************)
\* Each stage is "none" (not started), "running", "ok" or "failed".
NoStage == [fetch |-> "none", forward |-> "none", validate |-> "none",
            publish |-> "none"]

InitRun ==
  /\ pc = "received"
  /\ res = NoRes
  /\ tamper = "none"
  /\ cmp = "none"
  /\ calls = <<>>
  /\ attempt = 0
  /\ diff = Undef
  /\ forwarded = Undef
  /\ posted = NotPosted
  /\ params = Undef
  /\ svcRecv = 0
  /\ svcDetails = <<>>
  /\ errs = <<>>
  /\ stage = NoStage
  /\ llmCalls = 0

InitReviewIdle ==
  /\ rreq = Undef
  /\ rpc = "idle"
  /\ rres = NoReviewRes
  /\ llm = ApiError
  /\ wire = Undef
  /\ again = Thrown(<<>>)

Init ==
  /\ secret \in Secrets
  /\ req \in {r \in WebhookRequests(secret) : WellFormedRequest(secret, r)}
  /\ InitRun
  /\ InitServerIdle
  /\ InitReviewIdle

\* res.status(..).json(..): the response ends the run.
Respond(r) == pc' = "done" /\ res' = r

\* router.post('/webhook', verifyGitHubSignature, handler): the middleware.
VerifySignature ==
  /\ pc = "received"
  /\ LET v == verifyGitHubSignature(secret, req)
     IN  /\ cmp' = v.compared
         /\ IF v.next THEN pc' = "handler" /\ res' = res ELSE Respond(v.res)
  /\ UNCHANGED <<srvVars, secret, req, tamper, runVars, llmCalls, revVars>>

\* The handler up to its first await: the event filter, the identity checks
\* and the start of fetchPullRequestDiff (octokit.rest.pulls.get is issued).
\* Without a parsed body the read of body.action throws before the try, and
\* the error middleware answers.
Dispatch ==
  /\ pc = "handler"
  /\ IF req.body.t = "undef"
       THEN Respond(ErrorMiddlewareResponse(req.id)) /\ UNCHANGED <<calls, stage>>
     ELSE IF ~Actionable(req)
       THEN /\ Respond(createSuccessResponse(IgnoredData, req.id))
            /\ UNCHANGED <<calls, stage>>
     ELSE IF ~Truthy(req.body.full_name) \/ ~Truthy(req.body.number)
       THEN /\ Respond(createErrorResponse(400, "VALIDATION_ERROR",
                         <<Lit("Missing repo full_name or PR number")>>, req.id))
            /\ UNCHANGED <<calls, stage>>
     ELSE IF OwnerOf(req.body.full_name) = "" \/ RepoOf(req.body.full_name) = ""
       THEN /\ Respond(createErrorResponse(400, "VALIDATION_ERROR",
                         <<Lit("Invalid repository full_name format")>>, req.id))
            /\ UNCHANGED <<calls, stage>>
     ELSE /\ pc' = "awaitPullsGet"
          /\ res' = res
          /\ calls' = Append(calls, "pulls.get")
          /\ stage' = [stage EXCEPT !.fetch = "running"]
  /\ UNCHANGED <<srvVars, sigVars, attempt, diff, forwarded, posted, params, svcRecv, svcDetails, errs,
                 llmCalls, revVars>>

\* fetchPullRequestDiff threw: the handler's outer catch answers.
FetchFailed(cause) ==
  /\ Respond(CatchResponse(FetchDiffError(req, cause), req.id))
  /\ stage' = [stage EXCEPT !.fetch = "failed"]

\* fetchPullRequestDiff after pulls.get answered: the first attempt of
\* httpClient.get(diffUrl) is issued, or the function throws.
PullsGetReply(reply) ==
  /\ pc = "awaitPullsGet"
  /\ IF ~reply.ok
       THEN FetchFailed(<<Lit(reply.msg)>>) /\ UNCHANGED <<calls, attempt>>
     ELSE IF ~reply.diffUrl
       THEN /\ FetchFailed(<<Lit("No diff_url found for PR #"),
                             Val(req.body.number), Lit(" in "),
                             Val(Str(OwnerOf(req.body.full_name))), Lit("/"),
                             Val(Str(RepoOf(req.body.full_name)))>>)
            /\ UNCHANGED <<calls, attempt>>
     ELSE /\ pc' = "awaitDiff"
          /\ res' = res
          /\ calls' = Append(calls, "diff.get")
          /\ attempt' = 1
          /\ stage' = stage
  /\ UNCHANGED <<srvVars, sigVars, diff, forwarded, posted, params, svcRecv, svcDetails, errs, llmCalls,
                 revVars>>

\* An attempt of httpClient.get(diffUrl) failed: axios-retry issues the next
\* attempt, or the error reaches fetchPullRequestDiff's catch and then the
\* handler's.
DiffAttemptFailed(e) ==
  /\ pc = "awaitDiff"
  /\ errs' = Append(errs, e)
  /\ IF ShouldRetry("get", e, attempt)
       THEN /\ attempt' = attempt + 1
            /\ calls' = Append(calls, "diff.get")
            /\ UNCHANGED <<pc, res, stage>>
       ELSE /\ FetchFailed(AxiosMessage(e, "timeout of 10000ms exceeded"))
            /\ UNCHANGED <<attempt, calls>>
  /\ UNCHANGED <<srvVars, sigVars, diff, forwarded, posted, params, svcRecv, svcDetails, llmCalls, revVars>>

\* httpClient.get answered 2xx with a body that is no string.
DiffNotText ==
  /\ pc = "awaitDiff"
  /\ FetchFailed(<<Lit("Invalid diff response format")>>)
  /\ UNCHANGED <<srvVars, sigVars, calls, attempt, diff, forwarded, posted, params, svcRecv, svcDetails,
                 errs, llmCalls, revVars>>

\* httpClient.get answered with the diff: the handler ends the run on a
\* blank diff, and else posts the review request (first attempt).
DiffFetched(d) ==
  /\ pc = "awaitDiff"
  /\ diff' = d
  /\ IF IsBlankDiff(d)
       THEN /\ Respond(createSuccessResponse(NoChangesData, req.id))
            /\ stage' = [stage EXCEPT !.fetch = "ok"]
            /\ UNCHANGED <<calls, attempt, forwarded, errs>>
       ELSE /\ forwarded' = ReviewRequestBody(req, d)
            /\ calls' = Append(calls, "review.post")
            /\ attempt' = 1
            /\ errs' = <<>>
            /\ stage' = [stage EXCEPT !.fetch = "ok", !.forward = "running"]
            /\ pc' = "awaitReview"
            /\ res' = res
  /\ UNCHANGED <<srvVars, sigVars, posted, params, svcRecv, svcDetails, llmCalls, revVars>>

\* The envelope createSuccessResponse(reviewResponse) of the review service.
Envelope(rr) ==
  Body(Reply(rr.result.summary, Arr(rr.result.comments)), Undef, Undef)

\* The review service's answer to a POST /review: the validation
\* middleware, then the route handler on the backend's outcome.
ReviewServiceAnswer(body, outcome, requestId) ==
  LET v == validateReviewRequest(body, MaxDiffSize, requestId)
  IN  [called |-> v.next,
       res |-> IF v.next THEN ReviewHandler(outcome, requestId) ELSE v.res]

\* An attempt of httpClient.post failed with e: the retry, or the outer catch.
ForwardFailed(e) ==
  /\ errs' = Append(errs, e)
  /\ IF ShouldRetry("post", e, attempt)
       THEN /\ attempt' = attempt + 1
            /\ calls' = Append(calls, "review.post")
            /\ UNCHANGED <<pc, res, stage>>
       ELSE /\ Respond(CatchResponse(AxiosMessage(e, "timeout of 120000ms exceeded"), req.id))
            /\ stage' = [stage EXCEPT !.forward = "failed"]
            /\ UNCHANGED <<attempt, calls>>
  /\ posted' = posted
  /\ params' = params

\* A variant that does not check the summary.
ReviewDataValid_BadSkipsSummary(summary, comments) == comments.t = "arr"

\* !summary || !Array.isArray(comments), negated.
ReviewDataValid(summary, comments) == Truthy(summary) /\ comments.t = "arr"

\* httpClient.post resolved with a 2xx body: the handler extracts and checks
\* the review, builds the markdown and issues createReview.
ForwardSucceeded(body) ==
  /\ UNCHANGED <<attempt, errs>>
  /\ IF body.t = "null"
       THEN /\ Respond(CatchResponse(
                  <<Lit("Cannot read properties of null (reading 'data')")>>, req.id))
            /\ stage' = [stage EXCEPT !.forward = "ok", !.validate = "failed"]
            /\ UNCHANGED <<calls, posted, params>>
     ELSE
       LET reviewData == IF Truthy(body.data) THEN body.data ELSE body
           summary == reviewData.summary
           comments == reviewData.comments
       IN  IF ~ReviewDataValid(summary, comments)
             THEN /\ Respond(createErrorResponse(500, "EXTERNAL_SERVICE_ERROR",
                               <<Lit("Invalid response format from review service")>>, req.id))
                  /\ stage' = [stage EXCEPT !.forward = "ok", !.validate = "failed"]
                  /\ UNCHANGED <<calls, posted, params>>
           ELSE
             LET md == ReviewMarkdown(summary, comments.e)
             IN  IF ~md.ok
                   THEN /\ Respond(PostCatchResponse(
                              <<Lit("Cannot read properties of null (reading 'severity')")>>, req.id))
                        /\ stage' = [stage EXCEPT !.forward = "ok",
                                       !.validate = "ok", !.publish = "failed"]
                        /\ params' = [summary |-> summary, comments |-> comments.e]
                        /\ UNCHANGED <<calls, posted>>
                   ELSE /\ pc' = "awaitCreateReview"
                        /\ res' = res
                        /\ calls' = Append(calls, "createReview")
                        /\ posted' = CreateReviewArgs(md)
                        /\ params' = [summary |-> summary, comments |-> comments.e]
                        /\ stage' = [stage EXCEPT !.forward = "ok",
                                       !.validate = "ok", !.publish = "running"]

\* The attempt never reached the review service (connection refused or
\* reset, or the name did not resolve).
ForwardUnreached(e) ==
  /\ pc = "awaitReview"
  /\ ForwardFailed(e)
  /\ UNCHANGED <<srvVars, sigVars, diff, forwarded, svcRecv, svcDetails, llmCalls, revVars>>

\* The review service received and processed the request; its answer
\* arrived ("answered"), or the connection broke ("lost") or the 120 s
\* budget ran out ("timeout") before it did.
ForwardProcessed(transport, outcome) ==
  /\ pc = "awaitReview"
  /\ LET a == ReviewServiceAnswer(forwarded, outcome, SvcRequestId)
     IN  /\ svcRecv' = svcRecv + 1
         /\ svcDetails' = a.res.errors
         /\ llmCalls' = llmCalls + (IF a.called THEN 1 ELSE 0)
         /\ IF transport = "lost" THEN ForwardFailed(AxiosError(0, "ECONNRESET"))
            ELSE IF transport = "timeout"
              THEN ForwardFailed(AxiosError(0, "ECONNABORTED"))
            ELSE IF a.res.status = 200 THEN ForwardSucceeded(Envelope(a.res))
            ELSE ForwardFailed(AxiosError(a.res.status,
                   IF a.res.status >= 500 THEN "ERR_BAD_RESPONSE"
                   ELSE "ERR_BAD_REQUEST"))
  /\ UNCHANGED <<srvVars, sigVars, diff, forwarded, revVars>>

\* Another server at reviewServiceUrl answered 2xx.
ForwardForeign(body) ==
  /\ pc = "awaitReview"
  /\ ForwardSucceeded(body)
  /\ UNCHANGED <<srvVars, sigVars, diff, forwarded, svcRecv, svcDetails, llmCalls, revVars>>

\* postReviewSummary after createReview answered, and the handler's response.
CreateReviewReply(ok) ==
  /\ pc = "awaitCreateReview"
  /\ IF ok
       THEN /\ Respond(createSuccessResponse(ProcessedData, req.id))
            /\ stage' = [stage EXCEPT !.publish = "ok"]
       ELSE /\ Respond(PostCatchResponse(PostSummaryError(req, <<Lit("Not Found")>>), req.id))
            /\ stage' = [stage EXCEPT !.publish = "failed"]
  /\ UNCHANGED <<srvVars, sigVars, calls, attempt, diff, forwarded, posted, params, svcRecv, svcDetails,
                 errs, llmCalls, revVars>>

Next ==
  \/ VerifySignature
  \/ Dispatch
  \/ \E reply \in PullsGetReplies : PullsGetReply(reply)
  \/ \E e \in TransportErrors : DiffAttemptFailed(e)
  \/ DiffNotText
  \/ \E d \in DiffSamples : DiffFetched(d)
  \/ \E e \in {AxiosError(0, "ECONNRESET"), AxiosError(0, "ENOTFOUND")} :
       ForwardUnreached(e)
  \/ \E transport \in {"answered", "lost", "timeout"}, outcome \in LlmSamples :
       ForwardProcessed(transport, outcome)
  \/ \E body \in ForeignBodies : ForwardForeign(body)
  \/ \E ok \in BOOLEAN : CreateReviewReply(ok)

Spec == Init /\ [][Next]_vars

(***************************************************************************)
(* The signature middleware alone: a signed delivery may be changed in     *)
(* one byte on its way, then it is verified.                               *)
(***************************************************************************)
\* Characters a changed header byte may become: the hex digits, 'A', 'S',
\* '=', 's' and a two-byte character.
TamperChars == {HexChar(d) : d \in 0..15} \cup {65, 83, 61, 115, 233}

\* A fixed, actionable payload: the middleware does not read it.
SamplePayload ==
  [t |-> "obj", action |-> Str("opened"),
   full_name |-> Name(<<"acme", "widgets">>), number |-> Num(84)]

\* Headers: absent, an array, empty, the genuine header of every body, and
\* the genuine header cut, extended, without its prefix, and the prefix alone.
SigDomain(key, rawBody) ==
  LET good == ExpectedSig(SenderKey(key), BytesOf(rawBody))
  IN  {Undef, Arr(<<>>), Txt(<<>>), Txt(SigPrefix),
       Txt(SubSeq(good, 1, Len(good) - 1)), Txt(good \o <<48>>),
       Txt(SubSeq(good, Len(SigPrefix) + 1, Len(good)))}
      \cup {Txt(ExpectedSig(SenderKey(key), x.b)) : x \in RawBodies}

InitSig ==
  /\ secret \in Secrets
  /\ \E rb \in RawBodies \cup {Undef} :
       \E sg \in SigDomain(secret, rb) :
         req = [rawBody |-> rb, sig |-> sg, event |-> Str("pull_request"),
                body |-> IF rb = Undef THEN Undef ELSE SamplePayload,
                id |-> GatewayRequestId]
  /\ InitRun
  /\ InitServerIdle
  /\ InitReviewIdle

\* One byte of the body of an accepted delivery changes.
TamperBody(i, b) ==
  /\ pc = "received" /\ tamper = "none" /\ secret # NoSecret
  /\ verifyGitHubSignature(secret, req).next
  /\ i \in 1..Len(req.rawBody.b)
  /\ b # req.rawBody.b[i]
  /\ req' = [req EXCEPT !.rawBody = Buf([req.rawBody.b EXCEPT ![i] = b])]
  /\ tamper' = "body"
  /\ UNCHANGED <<srvVars, secret, cmp, pc, res, runVars, llmCalls, revVars>>

\* One byte of the signature header of an accepted delivery changes.
TamperSig(i, c) ==
  /\ pc = "received" /\ tamper = "none" /\ secret # NoSecret
  /\ verifyGitHubSignature(secret, req).next
  /\ i \in 1..Len(req.sig.cs)
  /\ c # req.sig.cs[i]
  /\ req' = [req EXCEPT !.sig = Txt([req.sig.cs EXCEPT ![i] = c])]
  /\ tamper' = "sig"
  /\ UNCHANGED <<srvVars, secret, cmp, pc, res, runVars, llmCalls, revVars>>

NextSig ==
  \/ \E i \in 1..MaxBodyLen, b \in Bytes : TamperBody(i, b)
  \/ \E i \in 1..(Len(SigPrefix) + DigestLen), c \in TamperChars : TamperSig(i, c)
  \/ VerifySignature

SpecSig == InitSig /\ [][NextSig]_vars

(***************************************************************************)
(* The review service alone: one POST /review request                      *)
(***************************************************************************)
InitReview ==
  /\ rreq \in ReviewBodies
  /\ rpc = "received"
  /\ rres = NoReviewRes
  /\ llm = ApiError
  /\ wire = Undef
  /\ again = Thrown(<<>>)
  /\ secret = NoSecret
  /\ req = [rawBody |-> Undef, sig |-> Undef, event |-> Undef, body |-> Undef,
            id |-> ""]
  /\ InitRun
  /\ InitServerIdle

\* validateReviewRequest, and on next() the route handler up to its await:
\* generateCodeReview calls the backend.
ValidateReview ==
  /\ rpc = "received"
  /\ LET v == validateReviewRequest(rreq, MaxDiffSize, SvcRequestId)
     IN  IF v.next
         THEN rpc' = "awaitLlm" /\ llmCalls' = llmCalls + 1 /\ rres' = rres
         ELSE rpc' = "done" /\ rres' = v.res /\ llmCalls' = llmCalls
  /\ UNCHANGED <<srvVars, sigVars, pc, res, runVars, rreq, llm, wire, again>>

\* The backend answered (or failed): sanitization and the response.
LlmReply(outcome) ==
  /\ rpc = "awaitLlm"
  /\ llm' = outcome
  /\ rres' = ReviewHandler(outcome, SvcRequestId)
  /\ rpc' = "done"
  /\ UNCHANGED <<srvVars, sigVars, pc, res, runVars, llmCalls, rreq, wire, again>>

NextReview ==
  \/ ValidateReview
  \/ \E outcome \in LlmOutcomes : LlmReply(outcome)

SpecReview == InitReview /\ [][NextReview]_vars

(***************************************************************************)
(* The review service's result on the wire, and the sanitization step run  *)
(* on that text again.                                                     *)
(*                                                                         *)
(* A JSON text is modelled by the value JSON.parse gives for it (Json(v)). *)
(* A number literal beyond the range of a double, such as 1e999, parses to *)
(* Infinity, which is a number to typeof.  JSON.stringify writes a number  *)
(* that is not finite as null, and every other value of a sanitized result *)
(* as the text that parses to it.                                          *)
(***************************************************************************)
Infinity == [t |-> "num", inf |-> TRUE]

\* Replies whose comments hold well-formed entries with an integer line, a
\* fractional line and the line 1e999, and malformed entries.
SanitizeOutcomes ==
  LET entries ==
        {GoodWarning, GoodInfo,
         Comment(Str("a.ts"), Infinity, Str("info"), Str("big line")),
         Comment(Str("a.ts"), Num(3), Str("error"), Str("half line")),
         Comment(Str("a.ts"), Num(6), Str("critical"), Str("bad severity")),
         Null}
  IN  {Completion(Json(Arr(<<GoodInfo>>)))}
      \cup {Completion(Json(Reply(sm, Arr(e)))) :
              sm \in SummarySamples, e \in SeqsUpTo(entries, MaxComments)}

\* JSON.stringify of a property value or array element, as the value its
\* text parses to.
JsonValue(v) == IF v.t = "num" /\ "inf" \in DOMAIN v THEN Null ELSE v

\* JSON.stringify of a review result {summary, comments}.
JsonStringify(result) ==
  LET JsonComment(c) ==
        Comment(JsonValue(c.file), JsonValue(c.line), JsonValue(c.severity),
                JsonValue(c.message))
  IN  Json(Reply(JsonValue(result.summary),
                 Arr([i \in 1..Len(result.comments) |->
                        JsonComment(result.comments[i])])))

\* res.status(200).json(..): the result of a 200 answer is serialized.
Serialize ==
  /\ rpc = "done"
  /\ rres.status = 200
  /\ wire = Undef
  /\ wire' = JsonStringify(rres.result)
  /\ UNCHANGED <<srvVars, sigVars, pc, res, runVars, llmCalls, rreq, rpc, rres,
                 llm, again>>

\* The text is given to the sanitization step as the content of a
\* completion.
Resanitize ==
  /\ wire # Undef
  /\ ~again.ok /\ again.message = <<>>
  /\ again' = generateCodeReview(Completion(wire))
  /\ UNCHANGED <<srvVars, sigVars, pc, res, runVars, llmCalls, rreq, rpc, rres,
                 llm, wire>>

NextSanitize ==
  \/ ValidateReview
  \/ \E outcome \in SanitizeOutcomes : LlmReply(outcome)
  \/ Serialize
  \/ Resanitize

SpecSanitize == InitReview /\ [][NextSanitize]_vars
(***************************************************************************)
(* The server: requests of several clients in flight at once               *)
(*                                                                         *)
(* Each request goes through createServer's chain: requestIdMiddleware,    *)
(* express.json, GET /health, webhookRateLimiter, verifyGitHubSignature    *)
(* and the route handler, whose awaits (fetchPullRequestDiff,              *)
(* httpClient.post, postReviewSummary) are the points where the requests   *)
(* interleave.  A settled httpClient call stands for its last attempt.     *)
(***************************************************************************)
soloVars == <<sigVars, pc, res, runVars, llmCalls, revVars>>

ServerSecret == "s3cret"

\* What clients send: a genuine synchronize delivery for PR 42 of
\* acme/widgets, the same without signature header, the same without a PR
\* number, the same with a body that is no JSON, and GET /health.
Synchronize ==
  [t |-> "obj", action |-> Str("synchronize"),
   full_name |-> Name(<<"acme", "widgets">>), number |-> Num(84)]
Signed ==
  [path |-> "/github/webhook", rawBody |-> Buf(<<1, 0>>),
   sig |-> Txt(ExpectedSig(ServerSecret, <<1, 0>>)),
   event |-> Str("pull_request"), body |-> Synchronize]
Unsigned == [Signed EXCEPT !.sig = Undef]
NoNumber == [Signed EXCEPT !.body = [Synchronize EXCEPT !.number = Undef]]
Broken == [Signed EXCEPT !.body = SyntaxError]
Health == [NoRequest EXCEPT !.path = "/health"]
ServerRequests == {Signed, Unsigned, NoNumber, Broken, Health}

\* The versions of the pull request's diff: every push makes the next one.
\* Version v has v added lines; the pull request starts without changes.
Versions == {0, 1, 2, 3}
DiffOf(v) == Txt(Plus(v))

\* The backend's outcomes for a forwarded diff.
ServerLlmSamples ==
  {ApiError, Completion(Json(Reply(Txt(<<76, 71, 84, 77>>), Arr(<<GoodInfo>>))))}

\* A variant that sets req.id and no response header.
requestIdMiddleware_BadNoHeader(c, n) == [c EXCEPT !.id = uuidv4(n)]

\* requestIdMiddleware: req.id = uuidv4(); res.setHeader('X-Request-ID', ..).
requestIdMiddleware(c, n) == [c EXCEPT !.id = uuidv4(n), !.hdr = uuidv4(n)]

\* A variant that lets one request more through.
Limited_BadOffByOne(n) == n > RateLimitMax + 1

\* express-rate-limit: the n-th request of a client in a window is refused
\* when n exceeds max.
Limited(n) == n > RateLimitMax

\* The limiter's message, sent with status 429.
RateLimitResponse(requestId) ==
  createErrorResponse(429, "RATE_LIMIT_EXCEEDED",
                      <<Lit("Too many requests, please try again later")>>,
                      requestId)

\* The body of GET /health (no envelope), without its timestamp and uptime.
HealthResponse == [status |-> 200, health |-> "ok", service |-> "webhook-service"]

\* The req object the middleware and the handler see.
ReqOf(c) ==
  [rawBody |-> c.rq.rawBody, sig |-> c.rq.sig, event |-> c.rq.event,
   body |-> c.rq.body, id |-> c.id]

\* The handler up to its first await: the response it sends, or go.
HandlerStart(r) ==
  IF ~Actionable(r)
    THEN [go |-> FALSE, res |-> createSuccessResponse(IgnoredData, r.id)]
  ELSE IF ~Truthy(r.body.full_name) \/ ~Truthy(r.body.number)
    THEN [go |-> FALSE,
          res |-> createErrorResponse(400, "VALIDATION_ERROR",
                    <<Lit("Missing repo full_name or PR number")>>, r.id)]
  ELSE IF OwnerOf(r.body.full_name) = "" \/ RepoOf(r.body.full_name) = ""
    THEN [go |-> FALSE,
          res |-> createErrorResponse(400, "VALIDATION_ERROR",
                    <<Lit("Invalid repository full_name format")>>, r.id)]
  ELSE [go |-> TRUE, res |-> NoRes]

\* res.status(..).json(..) of a request.
Done(c, r) == [c EXCEPT !.at = "done", !.res = r]

\* What a collaborator answered to one hop of a request.
Answer(hop, reply, version, outcome) ==
  [hop |-> hop, reply |-> reply, version |-> version, llm |-> outcome]

\* A variant in which GitHub keeps one review per version of the diff.
CreatedReviews_BadOnePerVersion(rs, i, v) ==
  IF \E k \in 1..Len(rs) : rs[k].version = v THEN rs
  ELSE Append(rs, [by |-> i, version |-> v])

\* GitHub after pulls.createReview of request i for the diff version v.
CreatedReviews(rs, i, v) == Append(rs, [by |-> i, version |-> v])

InitServer ==
  /\ secret = ServerSecret
  /\ req = [rawBody |-> Undef, sig |-> Undef, event |-> Undef, body |-> Undef,
            id |-> ""]
  /\ InitRun
  /\ InitReviewIdle
  /\ InitServerIdle

\* A request of client cl arrives: requestIdMiddleware runs first, then
\* express.json starts to read the body.
Arrive(i, cl, r) ==
  /\ conns[i].at = "none"
  /\ \A j \in Requests : j < i => conns[j].at # "none"
  /\ conns' = [conns EXCEPT ![i] =
       requestIdMiddleware([NoConn EXCEPT !.at = "reading", !.rq = r,
                                          !.client = cl], issued)]
  /\ issued' = issued + 1
  /\ UNCHANGED <<hits, head, reviews, soloVars>>

\* A variant whose handler ignores a delivery it has seen before.
Route_BadSkipsRedelivery(i) ==
  /\ conns[i].at = "reading"
  /\ LET c == conns[i]
         r == ReqOf(c)
         n == hits[c.client].n + 1
         v == verifyGitHubSignature(secret, r)
         h == IF \E j \in Requests : j < i /\ conns[j].rq = c.rq
              THEN [go |-> FALSE, res |-> createSuccessResponse(IgnoredData, r.id)]
              ELSE HandlerStart(r)
         k == [c EXCEPT !.counted = TRUE, !.window = hits[c.client].w]
     IN  IF c.rq.body = SyntaxError
           THEN /\ conns' = [conns EXCEPT ![i] = Done(c, ErrorMiddlewareResponse(c.id))]
                /\ hits' = hits
         ELSE IF c.rq.path = "/health"
           THEN /\ conns' = [conns EXCEPT ![i] = Done(c, HealthResponse)]
                /\ hits' = hits
         ELSE /\ hits' = [hits EXCEPT ![c.client].n = n]
              /\ conns' = [conns EXCEPT ![i] =
                   IF Limited(n) THEN Done(k, RateLimitResponse(c.id))
                   ELSE IF ~v.next THEN Done(k, v.res)
                   ELSE IF ~h.go THEN Done(k, h.res)
                   ELSE [k EXCEPT !.at = "awaitFetch", !.calls = <<"pulls.get">>]]
  /\ UNCHANGED <<issued, head, reviews, soloVars>>

\* The body was read.  A body that is no JSON goes to the error middleware;
\* GET /health is answered; a request under /github is counted by the rate
\* limiter, then verified, then the handler runs up to the pulls.get call.
Route(i) ==
  /\ conns[i].at = "reading"
  /\ LET c == conns[i]
         r == ReqOf(c)
         n == hits[c.client].n + 1
         v == verifyGitHubSignature(secret, r)
         h == HandlerStart(r)
         k == [c EXCEPT !.counted = TRUE, !.window = hits[c.client].w]
     IN  IF c.rq.body = SyntaxError
           THEN /\ conns' = [conns EXCEPT ![i] = Done(c, ErrorMiddlewareResponse(c.id))]
                /\ hits' = hits
         ELSE IF c.rq.path = "/health"
           THEN /\ conns' = [conns EXCEPT ![i] = Done(c, HealthResponse)]
                /\ hits' = hits
         ELSE /\ hits' = [hits EXCEPT ![c.client].n = n]
              /\ conns' = [conns EXCEPT ![i] =
                   IF Limited(n) THEN Done(k, RateLimitResponse(c.id))
                   ELSE IF ~v.next THEN Done(k, v.res)
                   ELSE IF ~h.go THEN Done(k, h.res)
                   ELSE [k EXCEPT !.at = "awaitFetch", !.calls = <<"pulls.get">>]]
  /\ UNCHANGED <<issued, head, reviews, soloVars>>

\* fetchPullRequestDiff settled: with the diff of the pull request as it is
\* now, with GitHub's 404, or with a timeout of the diff download.
FetchDone(i, outcome) ==
  /\ conns[i].at = "awaitFetch"
  /\ LET c == [conns[i] EXCEPT !.replies =
                 Append(@, Answer("fetch", outcome,
                                  IF outcome = "diff" THEN head ELSE 0, ApiError))]
         r == ReqOf(c)
         d == [c EXCEPT !.calls = Append(@, "diff.get")]
     IN  conns' = [conns EXCEPT ![i] =
           IF outcome = "notFound"
             THEN Done(c, CatchResponse(FetchDiffError(r, <<Lit("Not Found")>>), c.id))
           ELSE IF outcome = "timeout"
             THEN Done(d, CatchResponse(FetchDiffError(r,
                      AxiosMessage(AxiosError(0, "ECONNABORTED"),
                                   "timeout of 10000ms exceeded")), c.id))
           ELSE IF IsBlankDiff(DiffOf(head))
             THEN Done([d EXCEPT !.seen = head],
                       createSuccessResponse(NoChangesData, c.id))
           ELSE [d EXCEPT !.at = "awaitReview", !.seen = head,
                          !.calls = Append(@, "review.post")]]
  /\ UNCHANGED <<hits, issued, head, reviews, soloVars>>

\* httpClient.post settled.  The review service gave the forwarded request
\* its own identifier and answered; the gateway got the answer or timed
\* out, and on a valid review went on to createReview.
ForwardDone(i, transport, outcome) ==
  /\ conns[i].at = "awaitReview"
  /\ LET s == requestIdMiddleware(NoConn, issued)
         a == ReviewServiceAnswer(ReviewRequestBody(ReqOf(conns[i]),
                                                    DiffOf(conns[i].seen)),
                                  outcome, s.id)
         c == [conns[i] EXCEPT !.svc = a.res, !.svcHdr = s.hdr,
                 !.replies = Append(@, Answer("forward", transport, 0, outcome))]
         e == IF transport = "timeout" THEN AxiosError(0, "ECONNABORTED")
              ELSE AxiosError(a.res.status,
                     IF a.res.status >= 500 THEN "ERR_BAD_RESPONSE"
                     ELSE "ERR_BAD_REQUEST")
         reviewData == Envelope(a.res).data
     IN  conns' = [conns EXCEPT ![i] =
           IF transport = "timeout" \/ a.res.status # 200
             THEN Done(c, CatchResponse(
                         AxiosMessage(e, "timeout of 120000ms exceeded"), c.id))
           ELSE IF ~ReviewDataValid(reviewData.summary, reviewData.comments)
             THEN Done(c, createErrorResponse(500, "EXTERNAL_SERVICE_ERROR",
                         <<Lit("Invalid response format from review service")>>,
                         c.id))
           ELSE IF ~ReviewMarkdown(reviewData.summary, reviewData.comments.e).ok
             THEN Done(c, PostCatchResponse(
                         <<Lit("Cannot read properties of null (reading 'severity')")>>,
                         c.id))
           ELSE [c EXCEPT !.at = "awaitCreateReview",
                          !.calls = Append(@, "createReview")]]
  /\ issued' = issued + 1
  /\ UNCHANGED <<hits, head, reviews, soloVars>>

\* A variant in which a review is created only after the requests that
\* arrived earlier have ended.
PublishDone_BadInArrivalOrder(i, ok) ==
  /\ conns[i].at = "awaitCreateReview"
  /\ \A j \in Requests : j < i => conns[j].at = "done"
  /\ LET c == [conns[i] EXCEPT !.replies =
                 Append(@, Answer("createReview",
                                  IF ok THEN "created" ELSE "notFound", 0, ApiError))]
     IN  IF ok
           THEN /\ reviews' = CreatedReviews(reviews, i, c.seen)
                /\ conns' = [conns EXCEPT ![i] =
                     Done(c, createSuccessResponse(ProcessedData, c.id))]
           ELSE /\ reviews' = reviews
                /\ conns' = [conns EXCEPT ![i] =
                     Done(c, PostCatchResponse(
                               PostSummaryError(ReqOf(c), <<Lit("Not Found")>>),
                               c.id))]
  /\ UNCHANGED <<hits, issued, head, soloVars>>

\* pulls.createReview settled: the review is on the pull request and the
\* handler answers processed, or GitHub refused and the inner catch answers.
PublishDone(i, ok) ==
  /\ conns[i].at = "awaitCreateReview"
  /\ LET c == [conns[i] EXCEPT !.replies =
                 Append(@, Answer("createReview",
                                  IF ok THEN "created" ELSE "notFound", 0, ApiError))]
     IN  IF ok
           THEN /\ reviews' = CreatedReviews(reviews, i, c.seen)
                /\ conns' = [conns EXCEPT ![i] =
                     Done(c, createSuccessResponse(ProcessedData, c.id))]
           ELSE /\ reviews' = reviews
                /\ conns' = [conns EXCEPT ![i] =
                     Done(c, PostCatchResponse(
                               PostSummaryError(ReqOf(c), <<Lit("Not Found")>>),
                               c.id))]
  /\ UNCHANGED <<hits, issued, head, soloVars>>

\* A push to the pull request's branch: its diff changes.
Push ==
  /\ head + 1 \in Versions
  /\ head' = head + 1
  /\ UNCHANGED <<conns, hits, issued, reviews, soloVars>>

\* The rate limiter's window of a client ends: its count starts again.
WindowExpires(cl) ==
  /\ hits[cl].n > 0
  /\ hits' = [hits EXCEPT ![cl] = [n |-> 0, w |-> @.w + 1]]
  /\ UNCHANGED <<conns, issued, head, reviews, soloVars>>

NextServer ==
  \/ \E i \in Requests, cl \in Clients, r \in ServerRequests : Arrive(i, cl, r)
  \/ \E i \in Requests : Route(i)
  \/ \E i \in Requests, outcome \in {"diff", "notFound", "timeout"} :
       FetchDone(i, outcome)
  \/ \E i \in Requests, transport \in {"answered", "timeout"},
        outcome \in ServerLlmSamples : ForwardDone(i, transport, outcome)
  \/ \E i \in Requests, ok \in BOOLEAN : PublishDone(i, ok)
  \/ Push
  \/ \E cl \in Clients : WindowExpires(cl)

SpecServer == InitServer /\ [][NextServer]_vars

(***************************************************************************)
(* Properties                                                              *)
(***************************************************************************)
Count(s, x) == Cardinality({i \in 1..Len(s) : s[i] = x})

\* The run has issued no outbound call and reached no stage.
NothingDone ==
  /\ calls = <<>>
  /\ stage = NoStage
  /\ svcRecv = 0
  /\ llmCalls = 0
  /\ posted = NotPosted
  /\ params = Undef

\* The signing secret is configured and the request has no raw body, or no
\* string signature header, or a header whose byte length or value differs
\* from 'sha256=' + hex HMAC-SHA256 of the raw body.
BadSignature ==
  /\ secret # NoSecret
  /\ \/ req.rawBody.t = "undef"
     \/ req.sig.t # "txt"
     \/ Len(Utf8(req.sig.cs)) # Len(SigPrefix) + DigestLen
     \/ req.sig.cs # SigPrefix \o ToHex(HmacSha256(secret, req.rawBody.b), DigestLen)

\* C1: with a signing secret configured, a webhook request without raw
\* body, without a string signature header, or with a header that differs
\* in length or in value from the expected one, is answered 401
\* AUTHENTICATION_ERROR, and the route handler never runs for it: the
\* request never is at the handler, and no call or stage is ever started.
C1_BadSignatureRejected ==
  BadSignature =>
    /\ pc \in {"received", "done"}
    /\ pc = "done" =>
         /\ res.status = 401
         /\ res.code = "AUTHENTICATION_ERROR"
         /\ ~res.success
    /\ NothingDone

\* A header one character short of the expected one was rejected.
C1_Witness ==
  /\ BadSignature
  /\ req.sig.t = "txt"
  /\ Len(req.sig.cs) = Len(SigPrefix) + DigestLen - 1
  /\ pc = "done"
  /\ res.status = 401

\* C2: with a secret configured, the middleware calls next() exactly when
\* the header is the string 'sha256=' + lower-case hex HMAC-SHA256(secret,
\* raw body); a request without raw body is rejected; and after one byte of
\* the body or of the header of an accepted request changed, the request is
\* rejected with 401.
C2_NextIffGenuine ==
  (secret # NoSecret /\ pc # "received") =>
    /\ (pc = "handler") <=>
         /\ req.rawBody.t = "buf"
         /\ req.sig = Txt(SigPrefix \o ToHex(HmacSha256(secret, req.rawBody.b),
                                             DigestLen))
    /\ pc # "handler" => (pc = "done" /\ res.status = 401)
    /\ tamper # "none" => (pc = "done" /\ res.status = 401)

\* A delivery whose body changed in one byte after signing was rejected by
\* the comparison itself.
C2_Witness ==
  /\ secret # NoSecret
  /\ tamper = "body"
  /\ cmp = "false"
  /\ pc = "done"
  /\ res.status = 401

\* The middleware let the request through to the route handler.
Admitted == pc # "received" /\ res.code # "AUTHENTICATION_ERROR"

\* C3: a webhook that passed verification and whose event is not
\* pull_request, or whose action is none of opened, reopened, synchronize,
\* is answered 200 with {ignored: true}, and no diff fetch, review-service
\* call or GitHub write is made for it.
C3_OtherEventsIgnored ==
  (/\ Admitted
   /\ req.body.t = "obj"
   /\ ~(/\ req.event = Str("pull_request")
        /\ req.body.action \in {Str("opened"), Str("reopened"), Str("synchronize")}))
  =>
    /\ pc \in {"handler", "done"}
    /\ pc = "done" =>
         /\ res.status = 200
         /\ res.success
         /\ res.data = [ignored |-> "true"]
    /\ NothingDone

\* A push delivery whose payload says action 'opened' was ignored.
C3_Witness ==
  /\ Admitted
  /\ req.body.t = "obj"
  /\ req.event = Str("push")
  /\ req.body.action = Str("opened")
  /\ pc = "done"
  /\ res.status = 200
  /\ res.data = [ignored |-> "true"]

Rank(op) ==
  CASE op = "pulls.get" -> 1
    [] op = "diff.get" -> 2
    [] op = "review.post" -> 3
    [] op = "createReview" -> 4

\* C4: the stages of a run happen in the order diff fetch, forward, result
\* validation, publication, each starting only after the one before it
\* succeeded; createReview is called only after the diff was fetched and is
\* not blank, the forward returned and the result passed validation (a
\* truthy summary and a comments array); once one of the first three failed
\* the run has ended without a createReview call.
C4_StagesInOrder ==
  /\ \A i, j \in 1..Len(calls) : i < j => Rank(calls[i]) <= Rank(calls[j])
  /\ stage.forward # "none" => stage.fetch = "ok"
  /\ stage.validate # "none" => stage.forward = "ok"
  /\ stage.publish # "none" => stage.validate = "ok"
  /\ Count(calls, "createReview") > 0 =>
       /\ stage.fetch = "ok" /\ stage.forward = "ok" /\ stage.validate = "ok"
       /\ diff.t = "txt" /\ Trim(diff.cs) # <<>>
       /\ Count(calls, "review.post") > 0
       /\ Truthy(posted.summary)
       /\ posted.findings # <<>>
  /\ "failed" \in {stage.fetch, stage.forward, stage.validate} =>
       /\ pc = "done"
       /\ Count(calls, "createReview") = 0
       /\ posted = NotPosted
       /\ res.status >= 400

\* A run went through all four stages and published.
C4_Witness ==
  /\ pc = "done"
  /\ stage = [fetch |-> "ok", forward |-> "ok", validate |-> "ok",
              publish |-> "ok"]
  /\ calls[Len(calls)] = "createReview"
  /\ res.status = 200

\* The reply of the backend is text denoting a JSON object.
ReplyIsObject == llm.k = "completion" /\ llm.c.t = "json" /\ llm.c.v.t = "obj"

\* An entry with a string file, a numeric line, a severity among info,
\* warning, error and a string message.
WellFormedComment(c) ==
  /\ c.t = "obj"
  /\ c.file.t = "str"
  /\ c.line.t = "num"
  /\ c.severity \in {Str("info"), Str("warning"), Str("error")}
  /\ c.message.t = "str"

\* out holds exactly the well-formed entries of entries, in their order.
ExactlyTheWellFormed(out, entries) ==
  LET kept == {i \in 1..Len(entries) : WellFormedComment(entries[i])}
  IN  /\ Len(out) = Cardinality(kept)
      /\ \A i \in kept : out[Cardinality({k \in kept : k <= i})] = entries[i]

\* The comments of the response are the well-formed entries of the reply,
\* and none when the reply's comments is no array; the request succeeds.
CommentsSanitized ==
  /\ rres.status = 200
  /\ rres.success
  /\ IF llm.c.v.comments.t = "arr"
     THEN ExactlyTheWellFormed(rres.result.comments, llm.c.v.comments.e)
     ELSE rres.result.comments = <<>>

\* C5 as stated: for every reply that parses as a JSON object the comments
\* are exactly the well-formed entries in their order (none when comments
\* is no array), no entry fails the request, and the summary of the
\* response is the reply's summary, trimmed.
C5_SummaryIsTrimmedReply ==
  (rpc = "done" /\ ReplyIsObject) =>
    /\ CommentsSanitized
    /\ rres.result.summary =
         (IF llm.c.v.summary.t = "txt" THEN Txt(Trim(llm.c.v.summary.cs))
          ELSE llm.c.v.summary)

\* C5, amended: as stated for the comments; the summary of the response is
\* the reply's summary, trimmed, when that is a string with a character
\* that is no white space, and 'Code review completed' otherwise; in both
\* cases it is a function of the reply's summary alone.
C5_CommentsFilteredSummaryKept ==
  (rpc = "done" /\ ReplyIsObject) =>
    /\ CommentsSanitized
    /\ rres.result.summary =
         (IF /\ llm.c.v.summary.t = "txt"
             /\ \E i \in 1..Len(llm.c.v.summary.cs) : ~IsSpace(llm.c.v.summary.cs[i])
          THEN Txt(Trim(llm.c.v.summary.cs))
          ELSE FallbackSummary)

\* A reply with a malformed entry between two well-formed ones and a
\* padded summary: the two are returned in order, the summary trimmed.
C5_Witness ==
  /\ rpc = "done"
  /\ ReplyIsObject
  /\ llm.c.v.summary = Txt(<<32, 76, 71, 84, 77, 10>>)
  /\ llm.c.v.comments.t = "arr"
  /\ Len(llm.c.v.comments.e) = 2
  /\ llm.c.v.comments.e[1] = Null
  /\ llm.c.v.comments.e[2] = GoodInfo
  /\ rres.result.comments = <<GoodInfo>>
  /\ rres.result.summary = Txt(<<76, 71, 84, 77>>)

\* The number of ways the field of an object body violates the schema.
ViolationsIn(body, field) ==
  CASE field = "repo" ->
         IF ~IsString(body.repo) \/ ~Truthy(body.repo) THEN 1 ELSE 0
    [] field = "prNumber" ->
         IF body.prNumber.t # "num" THEN 1
         ELSE (IF body.prNumber.h % 2 # 0 THEN 1 ELSE 0)
                + (IF body.prNumber.h <= 0 THEN 1 ELSE 0)
    [] field = "diff" ->
         IF body.diff.t # "txt" THEN 1
         ELSE (IF Len(body.diff.cs) < 1 THEN 1 ELSE 0)
                + (IF Len(body.diff.cs) > MaxDiffSize THEN 1 ELSE 0)
    [] field = "language" ->
         IF body.language.t = "undef" \/ IsString(body.language) THEN 0 ELSE 1

SchemaFields == {"repo", "prNumber", "diff", "language"}

\* A non-empty string repo, a positive integer prNumber, a string diff of
\* 1..MaxDiffSize characters, and language absent or a string.
AcceptableBody(body) ==
  /\ body.t = "obj"
  /\ \A f \in SchemaFields : ViolationsIn(body, f) = 0

\* C6: the model backend is called only for a body with a non-empty string
\* repo, a positive integer prNumber, a string diff of length 1 up to the
\* configured maximum and language absent or a string; every other request
\* is answered 400 VALIDATION_ERROR with one {field, message} entry per
\* violation (one entry for a body that is no object), and the backend is
\* not called for it.
C6_InvalidRequestsRejected ==
  rpc \in {"awaitLlm", "done"} =>
    /\ llmCalls > 0 => AcceptableBody(rreq)
    /\ ~AcceptableBody(rreq) =>
         /\ rpc = "done"
         /\ llmCalls = 0
         /\ rres.status = 400
         /\ rres.code = "VALIDATION_ERROR"
         /\ ~rres.success
         /\ \A i \in 1..Len(rres.errors) : rres.errors[i].message # <<>>
         /\ IF rreq.t # "obj"
            THEN Len(rres.errors) = 1 /\ rres.errors[1].field = ""
            ELSE \A f \in SchemaFields \cup {""} :
                   Count([i \in 1..Len(rres.errors) |-> rres.errors[i].field], f)
                     = (IF f = "" THEN 0 ELSE ViolationsIn(rreq, f))

\* A request violating the schema in five ways (prNumber in two) was
\* answered with five entries and no backend call.
C6_Witness ==
  /\ rpc = "done"
  /\ rreq.t = "obj"
  /\ rreq.prNumber = Num(-3)
  /\ rres.status = 400
  /\ Len(rres.errors) = 5
  /\ llmCalls = 0

\* The error of a failed attempt is a network error (no response arrived
\* and the request did not time out) or a 5xx response.
Transient(e) ==
  \/ e.status = 0 /\ e.code # "ECONNABORTED"
  \/ e.status \in 500..599

\* The attempts issued of the transport-client request in flight.
Attempts == Count(calls, IF stage.forward = "none" THEN "diff.get" ELSE "review.post")

\* C7: a call through the shared transport client is attempted at most
\* 1 + Retries = 4 times; every attempt after the first follows an attempt
\* that failed with a network error or a 5xx status; an attempt that failed
\* with a 4xx status is the last one, and the run has ended with an error.
C7_RetryOnlyTransient ==
  /\ Count(calls, "diff.get") <= Retries + 1
  /\ Count(calls, "review.post") <= Retries + 1
  /\ Attempts = attempt
  /\ Len(errs) <= Attempts
  /\ \A i \in 1..Len(errs) : i < Attempts => Transient(errs[i])
  /\ \A i \in 1..Len(errs) :
       errs[i].status \in 400..499 =>
         /\ i = Len(errs)
         /\ i = Attempts
         /\ pc = "done"
         /\ res.status >= 400

\* The forward was attempted four times, each answered 500.
C7_Witness ==
  /\ pc = "done"
  /\ Count(calls, "review.post") = Retries + 1
  /\ \A i \in 1..(Retries + 1) : errs[i].status = 500
  /\ stage.forward = "failed"

\* C8 as stated: the review service processes the request of a delivery
\* once, and the model backend is invoked at most once per delivery.
C8_ProcessedOnce == svcRecv <= 1 /\ llmCalls <= 1

\* C8, amended: the review service processes the request of a delivery at
\* most once per attempt of the forward, so at most 1 + Retries = 4 times,
\* and the backend is invoked at most once per processing; while the first
\* attempt is the only one, the request was processed at most once.
C8_ProcessedOncePerAttempt ==
  /\ svcRecv <= Count(calls, "review.post")
  /\ Count(calls, "review.post") <= Retries + 1
  /\ llmCalls <= svcRecv
  /\ Count(calls, "review.post") <= 1 => (svcRecv <= 1 /\ llmCalls <= 1)
  /\ \A i \in 1..Len(errs) :
       (stage.forward # "none" /\ i < svcRecv) => Transient(errs[i])

\* The review service answered 500 four times, the backend having been
\* invoked each time.
C8_Witness ==
  /\ pc = "done"
  /\ svcRecv = Retries + 1
  /\ llmCalls = Retries + 1
  /\ errs[Len(errs)].status = 500

\* The message names the value.
Names(message, v) == \E i \in 1..Len(message) : message[i] = Val(v)

\* C9: createReview is called at most once per run and with event
\* 'COMMENT'; when the call fails the run ends, without another call, with
\* 500 EXTERNAL_SERVICE_ERROR and a message naming the pull request number,
\* the owner and the repository.
C9_PublishedOnceAsComment ==
  /\ Count(calls, "createReview") <= 1
  /\ Count(calls, "createReview") = 1 => posted.event = "COMMENT"
  /\ (Count(calls, "createReview") = 1 /\ stage.publish = "failed") =>
       /\ pc = "done"
       /\ res.status = 500
       /\ res.code = "EXTERNAL_SERVICE_ERROR"
       /\ ~res.success
       /\ Names(res.message, req.body.number)
       /\ Names(res.message, Str(req.body.full_name.segs[1]))
       /\ Names(res.message, Str(req.body.full_name.segs[2]))

\* A createReview call failed and the run ended with the 500.
C9_Witness ==
  /\ Count(calls, "createReview") = 1
  /\ stage.publish = "failed"
  /\ posted.event = "COMMENT"
  /\ res.code = "EXTERNAL_SERVICE_ERROR"

\* C10: when the fetched diff is empty or white space only, the run ends
\* with 200 and {forwardedToReviewService: false, postedReviewToGitHub:
\* false, reason: 'PR has no changes to review'}, and neither the forward
\* nor createReview is called.
C10_BlankDiffSkipped ==
  (diff.t = "txt" /\ \A i \in 1..Len(diff.cs) : IsSpace(diff.cs[i])) =>
    /\ pc = "done"
    /\ res.status = 200
    /\ res.success
    /\ res.data = [forwardedToReviewService |-> "false",
                   postedReviewToGitHub |-> "false",
                   reason |-> "PR has no changes to review"]
    /\ Count(calls, "review.post") = 0
    /\ Count(calls, "createReview") = 0
    /\ forwarded = Undef
    /\ svcRecv = 0
    /\ posted = NotPosted

\* A diff of a newline and a space ended the run without a forward.
C10_Witness ==
  /\ diff = Txt(<<10, 32>>)
  /\ pc = "done"
  /\ res.status = 200
  /\ stage.forward = "none"

\* The delivery is a pull_request event with action opened, reopened or
\* synchronize that the middleware let through.
ActionableEvent ==
  /\ Admitted
  /\ req.body.t = "obj"
  /\ req.event = Str("pull_request")
  /\ req.body.action \in {Str("opened"), Str("reopened"), Str("synchronize")}

\* repository.full_name is exactly two non-empty segments around one '/',
\* and pull_request.number is present.
WellFormedIdentity ==
  /\ req.body.full_name.t = "name"
  /\ Len(req.body.full_name.segs) = 2
  /\ \A i \in 1..2 : req.body.full_name.segs[i] # ""
  /\ req.body.number.t # "undef"

\* C11 as stated: an actionable event proceeds to the diff fetch only with
\* a full_name of exactly two non-empty segments and a number present; in
\* every other case the run ends with 400 VALIDATION_ERROR and no remote
\* call is made.
C11_IdentityChecked ==
  (ActionableEvent /\ ~WellFormedIdentity) =>
    /\ pc \in {"handler", "done"}
    /\ pc = "done" => (res.status = 400 /\ res.code = "VALIDATION_ERROR")
    /\ NothingDone

\* A delivery naming the repository 'acme/widgets/x' went on to the
\* pull-request lookup.
C11_Witness ==
  /\ ActionableEvent
  /\ req.body.full_name = Name(<<"acme", "widgets", "x">>)
  /\ calls # <<>>
  /\ calls[1] = "pulls.get"

\* The input of the delivery is invalid for the pipeline: the repository
\* identifier or the number is missing, the number is no positive integer,
\* or the fetched diff violates the schema of the review service.
InvalidForPipeline ==
  /\ ActionableEvent
  /\ \/ req.body.full_name.t = "undef"
     \/ req.body.number.t = "undef"
     \/ req.body.number.h % 2 # 0
     \/ req.body.number.h <= 0
     \/ diff.t = "txt" /\ (Len(diff.cs) < 1 \/ Len(diff.cs) > MaxDiffSize)

\* C12 as stated: a delivery whose input is invalid for the pipeline is
\* rejected with a validation error before any remote call: no call is
\* ever issued for it, it ends with 400 VALIDATION_ERROR, and nothing is
\* attempted twice.
C12_RejectedBeforeRemoteCalls ==
  InvalidForPipeline =>
    /\ calls = <<>>
    /\ attempt = 0
    /\ pc = "done" => (res.status = 400 /\ res.code = "VALIDATION_ERROR")

\* A delivery with pull request number 1.5 was looked up, its diff fetched
\* and forwarded; the review service rejected the number and the gateway
\* answered 500 INTERNAL_ERROR.
C12_Witness ==
  /\ ActionableEvent
  /\ req.body.number = Num(3)
  /\ Count(calls, "review.post") = 1
  /\ \E i \in 1..Len(svcDetails) : svcDetails[i].field = "prNumber"
  /\ pc = "done"
  /\ res.status = 500
  /\ res.code = "INTERNAL_ERROR"

\* The error codes the handler answers with when the diff fetch, the
\* forward and the publication fail, over the failures of the model.
CodesOfFetchFailure ==
  {CatchResponse(FetchDiffError(req, AxiosMessage(e, "timeout of 10000ms exceeded")), req.id).code :
     e \in TransportErrors}
CodesOfForwardFailure ==
  {CatchResponse(AxiosMessage(e, "timeout of 120000ms exceeded"), req.id).code :
     e \in TransportErrors}
CodesOfPublishFailure ==
  {PostCatchResponse(PostSummaryError(req, <<Lit("Not Found")>>), req.id).code}

\* C13 as stated: a failed diff fetch, a failed forward and a failed
\* publication each end the run with an error response, and the error code
\* of the response tells the stage: the code answered for a failure of one
\* stage is never a code answered for a failure of another.
C13_DistinctCodePerStage ==
  /\ stage.fetch = "failed" =>
       /\ pc = "done" /\ ~res.success /\ res.status >= 400
       /\ res.code \notin CodesOfForwardFailure \cup CodesOfPublishFailure
  /\ stage.forward = "failed" =>
       /\ pc = "done" /\ ~res.success /\ res.status >= 400
       /\ res.code \notin CodesOfFetchFailure \cup CodesOfPublishFailure
  /\ stage.publish = "failed" =>
       /\ pc = "done" /\ ~res.success /\ res.status >= 400
       /\ res.code \notin CodesOfFetchFailure \cup CodesOfForwardFailure

\* A forward that failed on a 500 of the review service was answered
\* INTERNAL_ERROR, the code a failed pull-request lookup is answered with.
C13_Witness ==
  /\ stage.forward = "failed"
  /\ errs[Len(errs)].status = 500
  /\ res.code = "INTERNAL_ERROR"
  /\ res.code \in CodesOfFetchFailure

\* The message texts of the failed upstream calls of the model: the
\* message of octokit's error on the lookup and the messages of axios.
UpstreamMessageTokens ==
  {Lit("Not Found")} \cup
  UNION {{AxiosMessage(e, "timeout of 10000ms exceeded")[i] :
            i \in 1..Len(AxiosMessage(e, "timeout of 10000ms exceeded"))} :
         e \in TransportErrors}

\* C14 as stated: when the diff retrieval fails, the message of the error
\* response names the pull request number, the owner and the repository,
\* and holds no part of the message of the failed upstream call.
C14_NoUpstreamMessageInBody ==
  stage.fetch = "failed" =>
    /\ pc = "done"
    /\ ~res.success
    /\ Names(res.message, req.body.number)
    /\ Names(res.message, Str(req.body.full_name.segs[1]))
    /\ Names(res.message, Str(req.body.full_name.segs[2]))
    /\ \A i \in 1..Len(res.message) : res.message[i] \notin UpstreamMessageTokens

\* The content fetch was answered 404, and the error response carries
\* axios's message with the status code.
C14_Witness ==
  /\ stage.fetch = "failed"
  /\ errs = <<AxiosError(404, "ERR_BAD_REQUEST")>>
  /\ \E i \in 1..(Len(res.message) - 1) :
       /\ res.message[i] = Lit("Request failed with status code ")
       /\ res.message[i + 1] = Val(Num(2 * 404))

\* C15 as stated: the gateway answers TIMEOUT_ERROR only when an outbound
\* request of the run exceeded its timeout budget (its last attempt ended
\* with ECONNABORTED).
C15_TimeoutOnlyOnTimeout ==
  res.code = "TIMEOUT_ERROR" =>
    /\ errs # <<>>
    /\ errs[Len(errs)].code = "ECONNABORTED"

\* The lookup of a pull request of the repository 'acme/timeout-tests'
\* failed with Not Found, no request timed out, and the answer is
\* TIMEOUT_ERROR.
C15_Witness ==
  /\ res.code = "TIMEOUT_ERROR"
  /\ req.body.full_name = Name(<<"acme", "timeout-tests">>)
  /\ calls = <<"pulls.get">>
  /\ errs = <<>>
  /\ \E i \in 1..Len(res.message) : res.message[i] = Lit("Not Found")

\* The request ended without a review: 500 EXTERNAL_SERVICE_ERROR, and
\* neither a summary nor comments in the response.
FailedAsExternalServiceError ==
  /\ rres.status = 500
  /\ rres.code = "EXTERNAL_SERVICE_ERROR"
  /\ ~rres.success
  /\ rres.result = [summary |-> Undef, comments |-> Undef]

\* C16: when the reply of the model backend has no text, empty text or
\* text that is not JSON, the /review request ends with 500
\* EXTERNAL_SERVICE_ERROR and returns neither summary nor comments.
C16_UnparseableReplyFails ==
  (rpc = "done" /\ llm.k = "completion" /\ llm.c.t \in {"undef", "empty", "garbage"})
    => FailedAsExternalServiceError

\* A reply text that is not JSON ended the request with the 500.
C16_Witness ==
  /\ rpc = "done"
  /\ llm = Completion([t |-> "garbage"])
  /\ llmCalls = 1
  /\ rres.status = 500
  /\ rres.code = "EXTERNAL_SERVICE_ERROR"

\* C17 as stated: when the reply parses to a JSON value that is no object
\* (null, a number, a string, a boolean or an array), the /review request
\* ends with the external-service error and returns no result.
C17_NonObjectReplyFails ==
  (rpc = "done" /\ llm.k = "completion" /\ llm.c.t = "json" /\ llm.c.v.t # "obj")
    => FailedAsExternalServiceError

\* The reply was a JSON array holding one finding; the request succeeded
\* with the fallback summary and no comments.
C17_Witness ==
  /\ rpc = "done"
  /\ llm = Completion(Json(Arr(<<GoodInfo>>)))
  /\ rres.status = 200
  /\ rres.result.summary = FallbackSummary
  /\ rres.result.comments = <<>>

\* C18: for a reply that parses to an object the request succeeds whatever
\* the summary is, and the returned summary is the reply's summary trimmed
\* when that is a string that is not blank after trimming, and 'Code review
\* completed' when it is missing, no string, empty or white space only;
\* every review returned has a non-empty summary.
C18_SummaryOrFallback ==
  /\ (rpc = "done" /\ ReplyIsObject) =>
       /\ rres.status = 200
       /\ LET sm == llm.c.v.summary
          IN  IF sm.t = "txt" /\ Trim(sm.cs) # <<>>
              THEN rres.result.summary = Txt(Trim(sm.cs))
              ELSE rres.result.summary =
                     Txt(<<67, 111, 100, 101, 32, 114, 101, 118, 105, 101, 119,
                           32, 99, 111, 109, 112, 108, 101, 116, 101, 100>>)
  /\ rres.status = 200 =>
       (rres.result.summary.t = "txt" /\ Len(rres.result.summary.cs) > 0)

\* A reply whose summary is white space only was answered with the
\* fallback text.
C18_Witness ==
  /\ rpc = "done"
  /\ ReplyIsObject
  /\ llm.c.v.summary = Txt(<<32, 10>>)
  /\ rres.status = 200
  /\ rres.result.summary = FallbackSummary

\* C19 as stated: every finding of every review returned has a string
\* file, an integer line, a severity among info, warning, error and a
\* string message.
C19_FindingsWellTyped ==
  rres.status = 200 =>
    \A i \in 1..Len(rres.result.comments) :
      LET c == rres.result.comments[i]
      IN  /\ c.t = "obj"
          /\ c.file.t = "str"
          /\ c.line.t = "num" /\ c.line.h % 2 = 0
          /\ c.severity \in {Str("info"), Str("warning"), Str("error")}
          /\ c.message.t = "str"

\* A finding with line 1.5 was returned.
C19_Witness ==
  /\ rpc = "done"
  /\ rres.status = 200
  /\ \E i \in 1..Len(rres.result.comments) :
       rres.result.comments[i] =
         Comment(Str("a.ts"), Num(3), Str("error"), Str("half line"))

\* The review service reported the diff field.
DiffRejected == \E i \in 1..Len(svcDetails) : svcDetails[i].field = "diff"

AllThreeSucceeded ==
  /\ stage.forward = "ok"
  /\ stage.validate = "ok"
  /\ stage.publish = "ok"

\* The gateway answered 200 {forwardedToReviewService: true,
\* postedReviewToGitHub: true}.
AnsweredProcessed ==
  /\ res.status = 200
  /\ res.success
  /\ res.data = [forwardedToReviewService |-> "true", postedReviewToGitHub |-> "true"]

\* C22: the body forwarded to the review service is exactly the payload's
\* full_name as repo, its number as prNumber, the fetched diff unchanged and
\* language 'typescript'; the gateway answers 200 {forwardedToReviewService:
\* true, postedReviewToGitHub: true} exactly when the forward, the
\* validation of the result and createReview all succeeded, and no response
\* is sent while createReview is outstanding.
C22_ForwardedAndProcessed ==
  /\ Count(calls, "review.post") >= 1 =>
       /\ diff.t = "txt"
       /\ \E i \in 1..Len(diff.cs) : ~IsSpace(diff.cs[i])
       /\ forwarded = [t |-> "obj", repo |-> req.body.full_name,
                       prNumber |-> req.body.number, diff |-> diff,
                       language |-> Str("typescript")]
  /\ pc = "done" => (AnsweredProcessed <=> AllThreeSucceeded)
  /\ pc # "done" => (res.status = 0 /\ ~AllThreeSucceeded)
  /\ AnsweredProcessed =>
       /\ Count(calls, "createReview") = 1
       /\ calls[Len(calls)] = "createReview"

\* A run forwarded a diff with leading white space and ended with the
\* processed answer after createReview returned.
C22_Witness ==
  /\ pc = "done"
  /\ AnsweredProcessed
  /\ AllThreeSucceeded
  /\ diff.cs[1] = 32
  /\ forwarded.diff = diff
  /\ calls[Len(calls)] = "createReview"

\* C28: when no webhook secret is configured, the signature middleware
\* hands every request to the handler without a response and without a
\* comparison, whatever its signature header and raw body are.
C28_NoSecretPassesAll ==
  [][(secret = "" /\ pc = "received") =>
       (pc' = "handler" /\ res'.status = 0 /\ cmp' = "none")]_vars

\* Without a secret, a request with neither a raw body nor a usable
\* signature header reached the handler.
C28_Witness ==
  /\ secret = ""
  /\ pc = "handler"
  /\ req.rawBody = Undef
  /\ req.sig = Arr(<<>>)
  /\ res.status = 0

\* Request i is a delivery to POST /github/webhook.
IsDelivery(i) == conns[i].rq.path = "/github/webhook"

\* Request i was answered 200 {forwardedToReviewService: true,
\* postedReviewToGitHub: true}.
DeliveryProcessed(i) ==
  /\ conns[i].at = "done"
  /\ IsDelivery(i)
  /\ conns[i].res.status = 200
  /\ conns[i].res.data = [forwardedToReviewService |-> "true",
                          postedReviewToGitHub |-> "true"]

\* The reviews on the pull request that request i created.
ReviewsBy(i) == {k \in 1..Len(reviews) : reviews[k].by = i}

C24_PublicationUnordered ==
  /\ \A i \in Requests :
       conns[i].at = "awaitCreateReview" => ENABLED PublishDone(i, TRUE)
  /\ \A k \in 1..Len(reviews) : reviews[k].version = conns[reviews[k].by].seen

\* Two synchronize deliveries: the review of the earlier one, computed for
\* the older diff, was created after the review of the later one.
C24_Witness ==
  /\ reviews = <<[by |-> 2, version |-> 2], [by |-> 1, version |-> 1]>>
  /\ conns[1].rq.body.action = Str("synchronize")
  /\ conns[2].rq.body.action = Str("synchronize")
  /\ conns[1].seen = 1
  /\ conns[2].seen = 2

\* The rate limiter refused request i.
RateLimited(i) ==
  /\ conns[i].at = "done"
  /\ conns[i].counted
  /\ conns[i].res.status = 429

\* C25 as stated: every response of the webhook endpoint has status 200,
\* 400, 401 or 500 by its outcome: a success envelope exactly with 200 and
\* one of the processed, ignored and no-changes bodies; 400 for a payload
\* that is structurally invalid, a body that is no JSON included; 401 for
\* a signature failure; 500 only after a collaborator failed.
C25_StatusFollowsOutcome ==
  \A i \in Requests :
    (conns[i].at = "done" /\ IsDelivery(i) /\ ~RateLimited(i)) =>
      LET r == conns[i].res
          rq == conns[i].rq
      IN  /\ r.status \in {200, 400, 401, 500}
          /\ r.success <=> r.status = 200
          /\ r.status = 200 =>
               r.data \in {[forwardedToReviewService |-> "true",
                            postedReviewToGitHub |-> "true"],
                           [ignored |-> "true"],
                           [forwardedToReviewService |-> "false",
                            postedReviewToGitHub |-> "false",
                            reason |-> "PR has no changes to review"]}
          /\ rq.body.t = "syntaxError" => r.status = 400
          /\ (rq.body.t = "obj" /\ rq.sig.t = "undef") => r.status = 401
          /\ (rq.body.t = "obj" /\ rq.sig.t = "txt" /\ rq.body.number.t = "undef")
               => r.status = 400
          /\ r.status = 500 =>
               \E k \in 1..Len(conns[i].replies) :
                 conns[i].replies[k].reply \in {"notFound", "timeout"}
                   \/ conns[i].svc.status >= 400

\* A delivery whose body is no JSON was answered 500 INTERNAL_ERROR before
\* any collaborator was called.
C25_Witness ==
  /\ conns[1].at = "done"
  /\ conns[1].rq.body.t = "syntaxError"
  /\ conns[1].res.status = 500
  /\ conns[1].res.code = "INTERNAL_ERROR"
  /\ conns[1].calls = <<>>
  /\ conns[1].replies = <<>>

\* The response sent for request i has the error envelope.
FailureResponse(i) ==
  /\ conns[i].at = "done"
  /\ IsDelivery(i)
  /\ ~conns[i].res.success

\* C26: a request has its correlation identifier, equal to its
\* X-Request-ID response header and different from that of every other
\* request, from its first step on; every failure response of the gateway
\* (validation, authentication, rate limit, external service, timeout,
\* unhandled error) carries the identifier of its request, and so does
\* every failure response of the review service for a forwarded request.
C26_FailureCarriesRequestId ==
  /\ \A i \in Requests :
       conns[i].at # "none" =>
         /\ conns[i].id # ""
         /\ conns[i].hdr = conns[i].id
         /\ \A j \in Requests \ {i} : conns[j].id # conns[i].id
  /\ \A i \in Requests :
       FailureResponse(i) =>
         /\ conns[i].res.code \in {"VALIDATION_ERROR", "AUTHENTICATION_ERROR",
                                   "RATE_LIMIT_EXCEEDED", "EXTERNAL_SERVICE_ERROR",
                                   "TIMEOUT_ERROR", "INTERNAL_ERROR"}
         /\ conns[i].res.requestId = conns[i].id
         /\ conns[i].res.requestId = conns[i].hdr
  /\ \A i \in Requests :
       conns[i].svc.status >= 400 =>
         /\ conns[i].svc.requestId # ""
         /\ conns[i].svc.requestId = conns[i].svcHdr
         /\ \A j \in Requests : conns[i].svc.requestId # conns[j].id

\* One client's first delivery failed authentication and its second was
\* refused by the rate limiter, each with its own identifier.
C26_Witness ==
  /\ FailureResponse(1)
  /\ FailureResponse(2)
  /\ conns[1].res.code = "AUTHENTICATION_ERROR"
  /\ conns[2].res.code = "RATE_LIMIT_EXCEEDED"
  /\ conns[1].res.requestId = "id-1"
  /\ conns[2].res.requestId = "id-2"
  /\ conns[2].hdr = "id-2"

\* The requests of client cl that the limiter counted in its window w, and
\* those of them it let through.
CountedIn(cl, w) ==
  {i \in Requests : conns[i].counted /\ conns[i].client = cl /\ conns[i].window = w}
PassedIn(cl, w) == {i \in CountedIn(cl, w) : ~RateLimited(i)}

\* C27: in every window of every client at most RateLimitMax requests get
\* past the limiter to the signature check and the handler, and a request
\* is refused only when that many were let through before it; a refused
\* request is answered 429 RATE_LIMIT_EXCEEDED and makes no outbound call;
\* a client's count is made of its own requests only; GET /health is
\* never counted or refused.
C27_RateLimitPerClient ==
  /\ \A cl \in Clients : \A w \in 0..Cardinality(Requests) :
       /\ Cardinality(PassedIn(cl, w)) <= RateLimitMax
       /\ PassedIn(cl, w) # CountedIn(cl, w) =>
            Cardinality(PassedIn(cl, w)) = RateLimitMax
  /\ \A cl \in Clients :
       hits[cl].n = Cardinality(CountedIn(cl, hits[cl].w))
  /\ \A i \in Requests :
       RateLimited(i) =>
         /\ conns[i].res.code = "RATE_LIMIT_EXCEEDED"
         /\ ~conns[i].res.success
         /\ conns[i].calls = <<>>
         /\ conns[i].replies = <<>>
         /\ conns[i].svc.status = 0
         /\ ReviewsBy(i) = {}
  /\ \A i \in Requests :
       (conns[i].at = "done" /\ conns[i].rq.path = "/health") =>
         /\ ~conns[i].counted
         /\ conns[i].res.status = 200

\* A client's second genuine delivery in a window was refused while its
\* first was in the pipeline, and the other client's count was untouched.
C27_Witness ==
  /\ conns[1].client = conns[2].client
  /\ conns[1].window = conns[2].window
  /\ conns[1].at = "awaitReview"
  /\ conns[2].rq.sig.t = "txt"
  /\ conns[2].rq.body.t = "obj"
  /\ RateLimited(2)
  /\ conns[2].calls = <<>>
  /\ \A cl \in Clients : cl # conns[1].client => hits[cl].n = 0

\* A response without the identifier of the request it answers.
SansRequestId(r) ==
  IF "requestId" \in DOMAIN r THEN [r EXCEPT !.requestId = ""] ELSE r

\* Request i is a delivery that has been routed and was not refused by the
\* rate limiter.
Handled(i) ==
  /\ IsDelivery(i)
  /\ conns[i].at \notin {"none", "reading"}
  /\ ~RateLimited(i)

\* C29: apart from rate-limit rejections, what handling a request does is
\* determined by the request and the replies of GitHub and of the language
\* model alone.  Two deliveries that are equal and got equal replies stand at
\* the same position with the same outbound calls made, the same response
\* (but for the request identifier, which is fresh in each) and the same
\* answer of the review service, whatever client sent them, whatever was
\* handled before or alongside them, and whatever reviews exist already.
C29_OutcomeIsFunctionOfRequest ==
  \A i, j \in Requests :
    (/\ Handled(i) /\ Handled(j)
     /\ conns[i].rq = conns[j].rq
     /\ conns[i].replies = conns[j].replies) =>
      /\ conns[i].at = conns[j].at
      /\ conns[i].calls = conns[j].calls
      /\ conns[i].seen = conns[j].seen
      /\ SansRequestId(conns[i].res) = SansRequestId(conns[j].res)
      /\ SansRequestId(conns[i].svc) = SansRequestId(conns[j].svc)

\* Two equal genuine deliveries from different clients each met a review
\* service that did not answer in time: both made the same three calls and
\* ended with the same 500, under different identifiers.
C29_Witness ==
  /\ conns[1].at = "done" /\ conns[2].at = "done"
  /\ conns[1].rq = Signed /\ conns[2].rq = Signed
  /\ conns[1].client # conns[2].client
  /\ Len(conns[1].replies) = 2
  /\ conns[1].replies = conns[2].replies
  /\ conns[1].replies[2].reply = "timeout"
  /\ conns[1].calls = <<"pulls.get", "diff.get", "review.post">>
  /\ conns[2].calls = conns[1].calls
  /\ conns[1].res.status = 500
  /\ conns[1].res.code = conns[2].res.code
  /\ conns[1].res.requestId # conns[2].res.requestId

(***************************************************************************)
(* The gateway under the scheduling its timeouts justify.  The middleware  *)
(* and the handler run to their next await.  httpClient.get carries        *)
(* timeout: 10000 and httpClient.post timeout: 120000, and axios-retry     *)
(* makes at most Retries further attempts, so every attempt of the diff    *)
(* download and of the forward settles.  octokit.pulls.get and             *)
(* octokit.pulls.createReview are called on an Octokit built with the      *)
(* token alone, without a request timeout: nothing makes them settle, and  *)
(* no fairness is assumed of their replies.                                *)
(***************************************************************************)
DiffSettles ==
  \/ \E e \in TransportErrors : DiffAttemptFailed(e)
  \/ DiffNotText
  \/ \E d \in DiffSamples : DiffFetched(d)

ForwardSettles ==
  \/ \E e \in {AxiosError(0, "ECONNRESET"), AxiosError(0, "ENOTFOUND")} :
       ForwardUnreached(e)
  \/ \E transport \in {"answered", "lost", "timeout"}, outcome \in LlmSamples :
       ForwardProcessed(transport, outcome)
  \/ \E body \in ForeignBodies : ForwardForeign(body)

SpecLive ==
  /\ Init
  /\ [][Next]_vars
  /\ WF_vars(VerifySignature)
  /\ WF_vars(Dispatch)
  /\ WF_vars(DiffSettles)
  /\ WF_vars(ForwardSettles)

\* The hops that carry a timeout always settle: the diff download ends the
\* run or goes on to the forward, and the forward ends the run or goes on
\* to createReview.
TimedHopsSettle ==
  /\ (pc = "awaitDiff") ~> (pc \in {"done", "awaitReview"})
  /\ (pc = "awaitReview") ~> (pc \in {"done", "awaitCreateReview"})

\* C30 as stated: every delivery that passed the signature check is
\* eventually answered, even if an external collaborator never replies.
C30_EveryRunEnds == (pc = "handler") ~> (pc = "done")

\* The run waits for the reply of octokit.pulls.get with one call made and
\* no response sent.
C30_Witness ==
  /\ pc = "awaitPullsGet"
  /\ res.status = 0
  /\ calls = <<"pulls.get">>
  /\ posted = NotPosted

\* The two buffers of the request at hand: the expected signature and the
\* received header, in UTF-8.
ExpectedBytes == Utf8(ExpectedSig(secret, req.rawBody.b))
ReceivedBytes == Utf8(req.sig.cs)

\* The request got as far as the two buffers: a secret is configured, the
\* raw body is there and the header is a non-empty string.
BuffersBuilt ==
  /\ secret # NoSecret
  /\ req.rawBody.t = "buf"
  /\ req.sig.t = "txt"
  /\ req.sig.cs # <<>>

\* C31: the timing-safe comparison runs only on buffers of equal byte
\* length.  Once the middleware has run, a comparison that took place had a
\* secret, a raw body and a string header whose UTF-8 bytes are as many as
\* those of the expected signature; a header of any other byte length was
\* answered 401 AUTHENTICATION_ERROR without the comparison; and the
\* comparison never threw.
C31_ComparedOnlyOnEqualLength ==
  pc # "received" =>
    /\ cmp \in {"none", "true", "false"}
    /\ cmp # "none" =>
         /\ BuffersBuilt
         /\ Len(ExpectedBytes) = Len(ReceivedBytes)
    /\ (BuffersBuilt /\ Len(ExpectedBytes) # Len(ReceivedBytes)) =>
         /\ cmp = "none"
         /\ pc = "done"
         /\ res.status = 401
         /\ res.code = "AUTHENTICATION_ERROR"
    /\ (BuffersBuilt /\ Len(ExpectedBytes) = Len(ReceivedBytes)) =>
         cmp # "none"

\* A header with as many characters as the expected one, one of them of two
\* bytes, was rejected by the length branch: the comparison did not run.
C31_Witness ==
  /\ BuffersBuilt
  /\ tamper = "sig"
  /\ Len(req.sig.cs) = Len(ExpectedSig(secret, req.rawBody.b))
  /\ Len(ReceivedBytes) = Len(ExpectedBytes) + 1
  /\ pc = "done"
  /\ cmp = "none"
  /\ res.status = 401

\* The sanitization step has run on the serialization of the result.
RanAgain == again.ok \/ again.message # <<>>

\* Every comment of the first result has a finite line.
LinesFinite ==
  \A i \in 1..Len(rres.result.comments) :
    rres.result.comments[i].line # Infinity

\* On results whose lines are finite the second run returns the summary
\* and the comments of the first.
StableOnFiniteLines ==
  (RanAgain /\ LinesFinite) =>
    /\ again.ok
    /\ again.result = rres.result

\* C32 as stated: sanitization is idempotent.  The step run on the JSON
\* serialization of a result it produced returns the same summary and the
\* same sequence of comments.
C32_SanitizationIdempotent ==
  RanAgain =>
    /\ again.ok
    /\ again.result.summary = rres.result.summary
    /\ again.result.comments = rres.result.comments

\* The first run kept a comment whose line is 1e999; the second run, on the
\* serialized result, dropped it.
C32_Witness ==
  /\ RanAgain
  /\ Len(rres.result.comments) = 1
  /\ rres.result.comments[1].line = Infinity
  /\ wire.v.comments.e[1].line = Null
  /\ again.ok
  /\ again.result.summary = rres.result.summary
  /\ again.result.comments = <<>>
====
